---- MODULE Spec2Model ----
(***************************************************************************)
(* song-classifier: the record store (src/data), the per-asset             *)
(* classification pipeline (src/main.py), the batch driver (src/cli.py)    *)
(* and the git synchronisation of the two table files (utils/git_sync.py). *)
(*                                                                         *)
(* Text values (Python str) are sequences of one-character strings, so     *)
(* that conversions which look at characters (newline translation of the   *)
(* csv reader, the extension test of the tag codec) are computed.          *)
(***************************************************************************)
EXTENDS Integers, Sequences, FiniteSets, TLC

VARIABLES
    metadata_csv,   \* config dir: metadata.csv (asset table file)
    albums_csv,     \* config dir: albums.csv (album table file)
    CACHE,          \* src/data/__init__.py CACHE: file name -> parsed rows
    storeOp,        \* the last call made on the data layer, with its result
    cfg,            \* what is fixed for a behaviour: config.json, transport, flags
    clone,          \* config dir: metadata-repo, the local clone
    remote,         \* the table files at the head of the shared repository
    assets,         \* the audio files at their canonical location
    temp,           \* config dir: temp, the copies WebdavTransport downloads
    proc,           \* the frame of cmd_process / process_files
    cf,             \* the frame of classify_filename for the asset in flight
    sync,           \* per process: the frame of its pull_metadata / push_metadata call
    lock,           \* config dir: .git-sync.lock, the process holding it (0: free)
    call,           \* a call of a library function: its arguments and its result
    hist            \* what happened to each asset in the current run (cur),
                    \* what was persisted in the run before it and whether
                    \* that run was interrupted (last), what was classified
                    \* to completion in any earlier run (prev)

storeVars == <<metadata_csv, albums_csv, CACHE, storeOp>>

pipeVars == <<cfg, clone, remote, assets, temp, proc, cf, hist, sync, lock, call>>

vars == <<metadata_csv, albums_csv, CACHE, storeOp,
          cfg, clone, remote, assets, temp, proc, cf, hist, sync, lock, call>>

----------------------------------------------------------------------------
(* Python values *)

\* Python None where a str is expected; a tuple holding a token that is no
\* character
None == <<"<None>">>

\* Python None where an object is expected
NoneObj == [cls |-> "NoneType"]

\* Python truthiness of an Optional[str]
Truthy(v) == v # None /\ v # <<>>

\* Python `a or b`
Or(a, b) == IF Truthy(a) THEN a ELSE b

\* str(v) as csv.writer renders a cell: None becomes the empty string
CellStr(v) == IF v = None THEN <<>> ELSE v

RECURSIVE UniversalNewlines(_)
\* open(file_path, mode="r") without newline="": "\r\n" and "\r" read as "\n"
UniversalNewlines(s) ==
    IF s = <<>> THEN <<>>
    ELSE IF Head(s) = "\r"
         THEN <<"\n">> \o UniversalNewlines(
                  IF Len(s) >= 2 /\ s[2] = "\n" THEN Tail(Tail(s)) ELSE Tail(s))
         ELSE <<Head(s)>> \o UniversalNewlines(Tail(s))

\* the set of the elements of a sequence
Range(s) == {s[i] : i \in 1..Len(s)}

----------------------------------------------------------------------------
(* src/data/models.py *)

AlbumMetadata(name, artist) == [name |-> name, artist |-> artist]

TrackMetadata(key, track, artist, album, genre, date) ==
    [key |-> key, track |-> track, artist |-> artist, album |-> album,
     genre |-> genre, date |-> date]

AlbumToCsvRow(a) == [c \in {"name", "artist"} |->
    IF c = "name" THEN a.name ELSE a.artist]

AlbumRowOk(row) == {"name", "artist"} \subseteq DOMAIN row

AlbumFromCsvRow(row) == AlbumMetadata(row["name"], row["artist"])

TrackToCsvRow(t) ==
    [c \in {"key", "track", "artist", "album_name", "album_artist", "genre", "date"} |->
        CASE c = "key" -> t.key
          [] c = "track" -> t.track
          [] c = "artist" -> t.artist
          [] c = "album_name" -> t.album.name
          [] c = "album_artist" -> t.album.artist
          [] c = "genre" -> t.genre
          [] c = "date" -> Or(t.date, <<>>)]

TrackRowOk(row) ==
    {"key", "track", "artist", "album_name", "album_artist", "genre", "date"}
        \subseteq DOMAIN row

\* from_csv_row that keeps the cell of the date as it is
TrackFromCsvRowKeepsDate(row) ==
    TrackMetadata(row["key"], row["track"], row["artist"],
                  AlbumMetadata(row["album_name"], row["album_artist"]),
                  row["genre"], row["date"])

TrackFromCsvRow(row) ==
    TrackMetadata(row["key"], row["track"], row["artist"],
                  AlbumMetadata(row["album_name"], row["album_artist"]),
                  row["genre"], Or(row["date"], None))

----------------------------------------------------------------------------
(* src/data/__init__.py *)

TRACK_FIELDNAMES ==
    <<"key", "track", "artist", "album_name", "album_artist", "genre", "date">>

ALBUM_FIELDNAMES == <<"name", "artist">>

LEGACY_TRACK_FIELDNAMES == <<"key", "track", "artist", "album", "genre", "date">>

\* a table file: absent, or a header line and the cells of each data line
NoFile == [exists |-> FALSE, header |-> <<>>, rows |-> <<>>]

CsvFile(header, rows) == [exists |-> TRUE, header |-> header, rows |-> rows]

\* csv.DictReader: one dict per data line keyed by the header; a cell the
\* line does not have is None; the text layer has translated newlines
DictRow(header, cells) ==
    [c \in Range(header) |->
        LET j == CHOOSE i \in 1..Len(header) :
                    /\ header[i] = c
                    /\ \A k \in 1..Len(header) : header[k] = c => k <= i
        IN  IF j <= Len(cells) THEN UniversalNewlines(cells[j]) ELSE None]

_read_csv_rows(file) ==
    IF ~file.exists THEN <<>>
    ELSE [i \in 1..Len(file.rows) |-> DictRow(file.header, file.rows[i])]

_is_legacy_track_format(rows) ==
    IF rows = <<>> THEN FALSE
    ELSE "album" \in DOMAIN rows[1] /\ "album_name" \notin DOMAIN rows[1]

\* row.get(c, "")
RowGet(row, c) == IF c \in DOMAIN row THEN row[c] ELSE <<>>

\* migration that looks for an album_artist column in the legacy row
MigrateWithoutDefault(row) ==
    [c \in {"key", "track", "artist", "album_name", "album_artist", "genre", "date"} |->
        CASE c = "album_name" -> RowGet(row, "album")
          [] OTHER -> RowGet(row, c)]

_migrate_legacy_track_row(row) ==
    [c \in {"key", "track", "artist", "album_name", "album_artist", "genre", "date"} |->
        CASE c = "album_name" -> RowGet(row, "album")
          [] c = "album_artist" -> RowGet(row, "artist")
          [] OTHER -> RowGet(row, c)]

\* reading that opens the file without looking whether it exists
ReadTracksFileNotFound(file) ==
    IF ~file.exists THEN [err |-> TRUE, val |-> <<>>]
    ELSE [err |-> FALSE,
          val |-> [i \in 1..Len(file.rows) |->
                     TrackFromCsvRow(DictRow(file.header, file.rows[i]))]]

\* the parsed rows, or err when from_csv_row raises KeyError on some row
ReadTracksUncached(file) ==
    LET raw == _read_csv_rows(file)
        rows == IF _is_legacy_track_format(raw)
                THEN [i \in 1..Len(raw) |-> _migrate_legacy_track_row(raw[i])]
                ELSE raw
    IN  IF \A i \in 1..Len(rows) : TrackRowOk(rows[i])
        THEN [err |-> FALSE, val |-> [i \in 1..Len(rows) |-> TrackFromCsvRow(rows[i])]]
        ELSE [err |-> TRUE, val |-> <<>>]

ReadAlbumsUncached(file) ==
    LET rows == _read_csv_rows(file)
    IN  IF \A i \in 1..Len(rows) : AlbumRowOk(rows[i])
        THEN [err |-> FALSE, val |-> [i \in 1..Len(rows) |-> AlbumFromCsvRow(rows[i])]]
        ELSE [err |-> TRUE, val |-> <<>>]

\* no cache entry for a file
NotCached == [cached |-> FALSE, val |-> <<>>]

_read_track_metadata(file, cache, use_cache) ==
    IF use_cache /\ cache["metadata.csv"].cached
    THEN [err |-> FALSE, val |-> cache["metadata.csv"].val]
    ELSE ReadTracksUncached(file)

_read_album_metadata(file, cache, use_cache) ==
    IF use_cache /\ cache["albums.csv"].cached
    THEN [err |-> FALSE, val |-> cache["albums.csv"].val]
    ELSE ReadAlbumsUncached(file)

\* csv.DictWriter(fieldnames).writeheader() and writerow(row) for each row
_write_csv(rows, fieldnames) ==
    CsvFile(fieldnames,
            [i \in 1..Len(rows) |->
                [j \in 1..Len(fieldnames) |-> CellStr(RowGet(rows[i], fieldnames[j]))]])

\* _write_csv: `if file_path in CACHE: del CACHE[file_path]`
Invalidate(cache, file_path) == [cache EXCEPT ![file_path] = NotCached]

\* index of the first row whose column c equals v, 0 when there is none
FirstIndex(rows, c, v) ==
    IF \E i \in 1..Len(rows) : rows[i][c] = v
    THEN CHOOSE i \in 1..Len(rows) :
            /\ rows[i][c] = v
            /\ \A k \in 1..(i - 1) : rows[k][c] # v
    ELSE 0

\* the rows upsert_track_metadata hands to _write_csv
UpsertTrackRows(existing, track) ==
    LET rows == [i \in 1..Len(existing) |-> TrackToCsvRow(existing[i])]
        i == FirstIndex(rows, "key", track.key)
    IN  IF i # 0 THEN [rows EXCEPT ![i] = TrackToCsvRow(track)]
        ELSE Append(rows, TrackToCsvRow(track))

\* the rows upsert_album_metadata hands to _write_csv
UpsertAlbumRows(existing, album) ==
    LET rows == [i \in 1..Len(existing) |-> AlbumToCsvRow(existing[i])]
        i == FirstIndex(rows, "name", album.name)
    IN  IF i # 0 THEN [rows EXCEPT ![i]["artist"] = album.artist]
        ELSE Append(rows, AlbumToCsvRow(album))

\* get_file_metadata(key): the first track with that key, None without one;
\* `if key:` is false for the empty key and the whole list is returned
get_file_metadata(file, key) ==
    LET tracks == ReadTracksUncached(file).val
    IN  IF Truthy(key)
        THEN IF \E i \in 1..Len(tracks) : tracks[i].key = key
             THEN tracks[CHOOSE i \in 1..Len(tracks) :
                            /\ tracks[i].key = key
                            /\ \A k \in 1..(i - 1) : tracks[k].key # key]
             ELSE NoneObj
        ELSE tracks

get_album_metadata(file, key) ==
    LET albums == ReadAlbumsUncached(file).val
    IN  IF Truthy(key)
        THEN IF \E i \in 1..Len(albums) : albums[i].name = key
             THEN albums[CHOOSE i \in 1..Len(albums) :
                            /\ albums[i].name = key
                            /\ \A k \in 1..(i - 1) : albums[k].name # key]
             ELSE NoneObj
        ELSE albums

----------------------------------------------------------------------------
(* Text values of the model *)

KeyMp3 == <<"a", ".", "m", "p", "3">>
KeyWav == <<"b", ".", "w", "a", "v">>
Keys == {KeyMp3, KeyWav}

Title1 == <<"t">>
Title2 == <<"u">>
TitleCR == <<"t", "\r", "u">>
Album1 == <<"A">>
AlbumCR == <<"A", "\r", "B">>
Artist1 == <<"x">>
Artist2 == <<"y">>
Genre1 == <<"g">>
Date1 == <<"2", "0", "2", "4">>

----------------------------------------------------------------------------
(* src/utils/file_metadata.py: the tag codec, by file extension *)

\* str.lower() on the letters the model uses
LowerChar(c) ==
    CASE c = "M" -> "m" [] c = "P" -> "p" [] c = "W" -> "w"
      [] c = "A" -> "a" [] c = "V" -> "v" [] OTHER -> c

Lower(s) == [i \in 1..Len(s) |-> LowerChar(s[i])]

\* str.endswith
EndsWith(s, suffix) ==
    /\ Len(s) >= Len(suffix)
    /\ SubSeq(s, Len(s) - Len(suffix) + 1, Len(s)) = suffix

\* the extensions read_file_metadata, is_already_processed and
\* write_file_metadata have a branch for
CodecExtensions ==
    {<<".", "m", "p", "3">>, <<".", "f", "l", "a", "c">>, <<".", "m", "4", "a">>,
     <<".", "m", "p", "4">>, <<".", "o", "p", "u", "s">>, <<".", "o", "g", "g">>}

HasCodec(path) == \E e \in CodecExtensions : EndsWith(Lower(path), e)

\* an audio file: the sentinel marker in its comment tag, and its tags
AudioFile(marker, tags) == [marker |-> marker, tags |-> tags]

\* read_file_metadata(path): the tags, None without recognizable tags
read_file_metadata(file, path) ==
    IF HasCodec(path) THEN file.tags ELSE NoneObj

\* is_already_processed(path)
is_already_processed(file, path) ==
    IF HasCodec(path) THEN file.marker ELSE FALSE

\* write_file_metadata(path, meta): falls through for any other extension
write_file_metadata(file, path, meta) ==
    IF HasCodec(path) THEN AudioFile(TRUE, meta) ELSE file

----------------------------------------------------------------------------
(* src/utils/git_sync.py *)

Tables(metadata, albums) == [metadata |-> metadata, albums |-> albums]

NoClone == [state |-> "absent", work |-> Tables(NoFile, NoFile),
            head |-> Tables(NoFile, NoFile), ahead |-> FALSE]

\* git clone repo_url repo_dir
GitClone(r) == [state |-> "git", work |-> r, head |-> r, ahead |-> FALSE]

\* _ensure_repo_cloned: the clone afterwards; cloneOk is whether git clone
\* succeeds when it has to run
_ensure_repo_cloned(c, r, cloneOk) ==
    IF c.state = "git" THEN c
    ELSE IF cloneOk THEN GitClone(r) ELSE c

\* git pull --rebase: refused on a dirty tree; brings the remote head in
GitPullRebase(c, r, pullOk) ==
    IF ~pullOk \/ c.work # c.head \/ c.ahead THEN c
    ELSE [c EXCEPT !.work = r, !.head = r]

\* _sync_file_from_repo / _sync_file_to_repo: shutil.copy2 when src exists
CopyIfExists(src, dst) == IF src.exists THEN src ELSE dst

\* pull_metadata() with a repository configured and the clone in place:
\* the clone and the two config-dir files afterwards
PullResult(c, r, pullOk) ==
    LET c2 == GitPullRebase(c, r, pullOk)
    IN  [clone |-> c2,
         metadata |-> CopyIfExists(c2.work.metadata, metadata_csv),
         albums |-> CopyIfExists(c2.work.albums, albums_csv)]

\* push_metadata() with a repository configured and the clone in place:
\* the clone, the remote and the return value
PushResult(c, r, commitOk, pushOk) ==
    LET w == Tables(CopyIfExists(metadata_csv, c.work.metadata),
                    CopyIfExists(albums_csv, c.work.albums))
        copied == [c EXCEPT !.work = w]
        committed == [copied EXCEPT !.head = w, !.ahead = TRUE]
    IN  IF w = c.head THEN [clone |-> copied, remote |-> r, ret |-> TRUE]
        ELSE IF ~commitOk THEN [clone |-> copied, remote |-> r, ret |-> FALSE]
        ELSE IF ~pushOk THEN [clone |-> committed, remote |-> r, ret |-> FALSE]
        ELSE [clone |-> [committed EXCEPT !.ahead = FALSE], remote |-> w, ret |-> TRUE]

----------------------------------------------------------------------------
(* src/utils/ai_metadata.py, src/utils/ui_confirm.py: the collaborators *)

\* data.get("date") of the JSON the model answers with: a year for the
\* first asset, "date": "" for the second
ResponseDate(filename) == IF filename = KeyWav THEN <<>> ELSE Date1

\* parse_metadata_with_ai(filename, existing): key=filename, date as it comes
Inferred(filename) ==
    TrackMetadata(filename, Title1, Artist1, AlbumMetadata(Album1, Artist1),
                  Genre1, ResponseDate(filename))

\* what calling an `async def` without awaiting it evaluates to
Coroutine == [cls |-> "coroutine"]

\* a confirmation form in which the key is a field the operator can retype
ConfirmRetypesKey(initial) ==
    {TrackMetadata(k, t, initial.artist, initial.album, initial.genre,
                   Or(initial.date, None)) : k \in Keys, t \in {initial.track, Title2}}

\* ConfirmMetadataApp.on_button_pressed: the key is the initial key, the
\* operator keeps or retypes the title, an emptied date becomes None
ConfirmResults(initial) ==
    {TrackMetadata(initial.key, t, initial.artist, initial.album, initial.genre,
                   Or(initial.date, None)) : t \in {initial.track, Title2}}

\* confirm_metadata(ai_metadata) as main.py calls it, without await: with
\* the `async def` of utils/ui_confirm.py the call evaluates to a coroutine
\* object; with a blocking callable bound to the name (what main.py's comment
\* expects, and what the flat-layout ui_confirm.py provides) to a record
confirm_metadata(initial) ==
    IF cfg.confirm = "async_def" THEN {Coroutine} ELSE ConfirmResults(initial)

----------------------------------------------------------------------------
(* src/cli.py, src/main.py: state of a batch run *)

\* the number of batch runs (invocations of cmd_process) in one behaviour
MaxRuns == 2

\* the local processes (terminal sessions) sharing one configuration directory
Procs == {1, 2}

\* no library function is being exercised on its own
NoCall == [fn |-> "none"]

\* a process that is not inside pull_metadata or push_metadata; log is what
\* its last call did, dirty whether `git status` found changes, ahead0 whether
\* the clone held an unpushed commit when the call entered the locked section
NoSync == [pc |-> "idle", fn |-> "none", ret |-> "none", exc |-> "", log |-> {},
           calls |-> 0, dirty |-> FALSE, ahead0 |-> FALSE]

\* what list_files yields for the operator's root path
Files == <<KeyMp3, KeyWav>>

\* run-level events are recorded in hist under this file name
NoFileName == <<>>

\* nothing has happened yet
NoHistory == [prev |-> {}, last |-> {}, cur |-> {}]

\* cmd_process before it is invoked
IdleProc == [pc |-> "idle", run |-> 0, dry_run |-> FALSE, no_sync |-> FALSE,
             i |-> 0, processed |-> 0, files_processed |-> 0, exit |-> -1]

\* classify_filename when it is not running; store0 and asset0 are the two
\* tables and the asset as they were when the function was entered
NoFrame == [pc |-> "none", filename |-> <<>>, existing |-> NoneObj,
            ai_metadata |-> NoneObj, confirmed |-> NoneObj, ret |-> NoneObj,
            exc |-> "", at |-> "", trace |-> <<>>,
            store0 |-> Tables(NoFile, NoFile),
            asset0 |-> AudioFile(FALSE, NoneObj)]

\* classify_filename(filename, ...) entered
NewFrame(filename) ==
    [NoFrame EXCEPT !.pc = "lookup", !.filename = filename,
                    !.store0 = Tables(metadata_csv, albums_csv),
                    !.asset0 = assets[filename]]

\* a record an earlier session stored for the first asset
KnownTrack ==
    TrackMetadata(KeyMp3, Title1, Artist2, AlbumMetadata(Album1, Artist2), Genre1, None)

KnownTables ==
    Tables(_write_csv(<<TrackToCsvRow(KnownTrack)>>, TRACK_FIELDNAMES),
           _write_csv(<<AlbumToCsvRow(KnownTrack.album)>>, ALBUM_FIELDNAMES))

\* a shared repository that holds the two tables with no rows yet
SeededTables ==
    Tables(_write_csv(<<>>, TRACK_FIELDNAMES), _write_csv(<<>>, ALBUM_FIELDNAMES))

\* api_key: OPENAI_API_KEY is set; path_ok: the path argument is an
\* existing directory
Configs ==
    [sync_repo : BOOLEAN, confirm : {"async_def", "blocking"}, webdav : BOOLEAN,
     skip_processed : BOOLEAN, skip_in_metadata : BOOLEAN,
     api_key : BOOLEAN, path_ok : BOOLEAN]

Init ==
    /\ cfg \in Configs
    /\ \E t \in {Tables(NoFile, NoFile), KnownTables} :
          /\ metadata_csv = t.metadata
          /\ albums_csv = t.albums
    /\ CACHE = [f \in {"metadata.csv", "albums.csv"} |-> NotCached]
    /\ storeOp = [name |-> "none", n |-> 0, raised |-> FALSE, before |-> 0,
                  known |-> FALSE, track |-> NoneObj, album |-> NoneObj]
    /\ remote = SeededTables
    /\ clone = NoClone
    /\ assets = [f \in Range(Files) |->
                    IF f = KeyMp3 /\ metadata_csv.exists
                    THEN AudioFile(TRUE, KnownTrack)
                    ELSE AudioFile(FALSE, NoneObj)]
    /\ temp = [f \in Range(Files) |-> [exists |-> FALSE, file |-> AudioFile(FALSE, NoneObj)]]
    /\ proc = IdleProc
    /\ cf = NoFrame
    /\ hist = NoHistory
    /\ sync = [p \in Procs |-> NoSync]
    /\ lock = 0
    /\ call = NoCall

\* the file classify_filename works on: the download for WebDAV, the asset
\* itself for the local transport
LocalFile == IF cfg.webdav THEN temp[cf.filename].file ELSE assets[cf.filename]

\* the events of the given kinds
Only(events, kinds) == {e \in events : e[2] \in kinds}

\* the history with events added to the current run
Event(events) == [hist EXCEPT !.cur = @ \cup events]

\* an exception leaves classify_filename, process_files and asyncio.run;
\* cmd_process catches KeyboardInterrupt only, anything else ends the process
Raise(exc) ==
    /\ cf' = [cf EXCEPT !.pc = "raised", !.exc = exc, !.at = cf.pc]
    /\ proc' = [proc EXCEPT !.pc = "exited", !.exit = 1]
    /\ hist' = hist

\* `if file_transport.cleanup_local_files: os.remove(local_path)`
Removed(t, f) == IF cfg.webdav THEN [t EXCEPT ![f].exists = FALSE] ELSE t

\* the step of classify_filename that is about to run
At(pc) == proc.pc = "loop" /\ cf.pc = pc

Step(pc, name) == [cf EXCEPT !.pc = pc, !.trace = Append(@, name)]

UnchangedStore == UNCHANGED <<metadata_csv, albums_csv, CACHE, storeOp>>

UnchangedSync == UNCHANGED <<cfg, clone, remote, sync, lock, call>>

----------------------------------------------------------------------------
(* src/cli.py cmd_process *)

\* validate_api_key() and validate_path(path) both pass; the key is looked
\* at only `if not args.dry_run`
Validated(dry_run) == (dry_run \/ cfg.api_key) /\ cfg.path_ok

\* the process is started: `song-classifier process [--dry-run] [--no-sync]`;
\* cli.py 92-105: a failed validation is logged and ends it with sys.exit(1)
StartRun(dry_run, no_sync) ==
    /\ proc.pc \in {"idle", "exited"}
    /\ proc.run < MaxRuns
    /\ proc' = [IdleProc EXCEPT !.pc = IF Validated(dry_run) THEN "pull" ELSE "exited",
                                !.exit = IF Validated(dry_run) THEN -1 ELSE 1,
                                !.run = proc.run + 1,
                                !.dry_run = dry_run, !.no_sync = no_sync]
    /\ cf' = NoFrame
    /\ hist' = [prev |-> Only(hist.prev \cup hist.cur, {"done"}),
                last |-> Only(hist.cur, {"persist", "interrupt"}),
                cur |-> {}]
    /\ UNCHANGED <<assets, temp>>
    /\ UnchangedStore /\ UnchangedSync

\* cli.py 111-113: `if not args.no_sync: pull_metadata()`
Pull(cloneOk, pullOk) ==
    /\ proc.pc = "pull"
    /\ IF proc.no_sync \/ ~cfg.sync_repo
       THEN /\ proc' = [proc EXCEPT !.pc = "list"]
            /\ UNCHANGED <<clone, metadata_csv, albums_csv, hist>>
       ELSE LET c == _ensure_repo_cloned(clone, remote, cloneOk)
                res == PullResult(c, remote, pullOk)
            IN  IF c.state # "git"
                THEN \* RuntimeError("Failed to clone repository"), not caught
                     /\ proc' = [proc EXCEPT !.pc = "exited", !.exit = 1]
                     /\ UNCHANGED <<clone, metadata_csv, albums_csv, hist>>
                ELSE /\ clone' = res.clone
                     /\ metadata_csv' = res.metadata
                     /\ albums_csv' = res.albums
                     /\ proc' = [proc EXCEPT !.pc = "list"]
                     /\ hist' = Event({<<NoFileName, "pull">>})
    /\ UNCHANGED <<cfg, remote, assets, temp, cf, CACHE, storeOp, sync, lock, call>>

\* cli.py 126-148: list the files and enter process_files
ListFiles ==
    /\ proc.pc = "list"
    /\ proc' = [proc EXCEPT !.pc = "loop", !.i = 1]
    /\ cf' = NewFrame(Files[1])
    /\ UNCHANGED <<hist, assets, temp>>
    /\ UnchangedStore /\ UnchangedSync

\* cli.py 82-85: the result of classify_filename is counted, the loop goes on
\* or process_files returns and cmd_process assigns files_processed
NextFile ==
    /\ At("returned")
    /\ LET n == proc.processed + (IF cf.ret # NoneObj THEN 1 ELSE 0)
       IN  IF proc.i < Len(Files)
           THEN /\ proc' = [proc EXCEPT !.i = proc.i + 1, !.processed = n]
                /\ cf' = NewFrame(Files[proc.i + 1])
           ELSE /\ proc' = [proc EXCEPT !.pc = "after_loop", !.processed = n,
                                        !.files_processed = n]
                /\ cf' = cf
    /\ UNCHANGED <<hist, assets, temp>>
    /\ UnchangedStore /\ UnchangedSync

\* push_metadata() called from cmd_process
PushCall(cloneOk, commitOk, pushOk) ==
    IF ~cfg.sync_repo
    THEN UNCHANGED <<clone, remote>>
    ELSE LET c == _ensure_repo_cloned(clone, remote, cloneOk)
             res == PushResult(c, remote, commitOk, pushOk)
         IN  IF c.state # "git"
             THEN UNCHANGED <<clone, remote>>
             ELSE clone' = res.clone /\ remote' = res.remote

\* cli.py 156-160: `if not args.no_sync and not args.dry_run: push_metadata()`
AfterLoop(cloneOk, commitOk, pushOk) ==
    /\ proc.pc = "after_loop"
    /\ IF ~proc.no_sync /\ ~proc.dry_run
       THEN /\ PushCall(cloneOk, commitOk, pushOk)
            /\ hist' = Event({<<NoFileName, "push">>})
            /\ proc' = [proc EXCEPT !.pc = "exited",
                          !.exit = IF cfg.sync_repo /\ clone.state # "git" /\ ~cloneOk
                                   THEN 1 ELSE 0]
       ELSE /\ UNCHANGED <<clone, remote, hist>>
            /\ proc' = [proc EXCEPT !.pc = "exited", !.exit = 0]
    /\ UNCHANGED <<cfg, assets, temp, cf, sync, lock, call>>
    /\ UnchangedStore

\* KeyboardInterrupt while asyncio.run(process_files(...)) is running
Interrupt ==
    /\ proc.pc = "loop"
    /\ cf.pc \notin {"raised"}
    /\ cf' = [cf EXCEPT !.pc = "raised", !.exc = "KeyboardInterrupt", !.at = cf.pc]
    /\ proc' = [proc EXCEPT !.pc = "except"]
    /\ hist' = Event({<<NoFileName, "interrupt">>})
    /\ UNCHANGED <<assets, temp>>
    /\ UnchangedStore /\ UnchangedSync

\* the interrupt handler pushing whatever the interrupted batch has stored
ExceptPushesAnyway(cloneOk, commitOk, pushOk) ==
    /\ proc.pc = "except"
    /\ IF ~proc.no_sync
       THEN /\ PushCall(cloneOk, commitOk, pushOk)
            /\ hist' = Event({<<NoFileName, "push">>})
       ELSE UNCHANGED <<clone, remote, hist>>
    /\ proc' = [proc EXCEPT !.pc = "exited", !.exit = 130]
    /\ UNCHANGED <<cfg, assets, temp, cf, sync, lock, call>>
    /\ UnchangedStore

\* cli.py 149-154: `except KeyboardInterrupt:`; files_processed still has the
\* value of line 135 because the assignment of line 138 never completed
ExceptKeyboardInterrupt(cloneOk, commitOk, pushOk) ==
    /\ proc.pc = "except"
    /\ IF ~proc.no_sync /\ proc.files_processed > 0
       THEN /\ PushCall(cloneOk, commitOk, pushOk)
            /\ hist' = Event({<<NoFileName, "push">>})
       ELSE UNCHANGED <<clone, remote, hist>>
    /\ proc' = [proc EXCEPT !.pc = "exited", !.exit = 130]
    /\ UNCHANGED <<cfg, assets, temp, cf, sync, lock, call>>
    /\ UnchangedStore

----------------------------------------------------------------------------
(* src/main.py classify_filename, one action per statement that can fail or
   be interrupted *)

\* Lookup without the early return of main.py 39-41
LookupWithoutSkip ==
    /\ At("lookup")
    /\ cf' = Step("fetch", "lookup")
    /\ UNCHANGED <<proc, hist, assets, temp>>
    /\ UnchangedStore /\ UnchangedSync

\* main.py 39-41: the store lookup
Lookup ==
    /\ At("lookup")
    /\ LET rd == _read_track_metadata(metadata_csv, CACHE, FALSE)
           found == get_file_metadata(metadata_csv, cf.filename)
       IN  IF cfg.skip_in_metadata /\ rd.err
           THEN Raise("KeyError")
           ELSE /\ cf' = IF cfg.skip_in_metadata /\ found # NoneObj
                         THEN [Step("returned", "lookup") EXCEPT !.ret = NoneObj]
                         ELSE Step("fetch", "lookup")
                /\ UNCHANGED <<proc, hist>>
    /\ UNCHANGED <<assets, temp>>
    /\ UnchangedStore /\ UnchangedSync

\* main.py 45: file_transport.load_file(filename, base_path)
Fetch(ok) ==
    /\ At("fetch")
    /\ IF cfg.webdav /\ ~ok
       THEN Raise("WebDavException") /\ UNCHANGED temp
       ELSE /\ cf' = Step("read_tags", "fetch")
            /\ temp' = IF cfg.webdav
                       THEN [temp EXCEPT ![cf.filename] =
                                [exists |-> TRUE, file |-> assets[cf.filename]]]
                       ELSE temp
            /\ UNCHANGED <<proc, hist>>
    /\ UNCHANGED assets
    /\ UnchangedStore /\ UnchangedSync

\* main.py 49: read_file_metadata(local_path)
ReadTags ==
    /\ At("read_tags")
    /\ cf' = [Step("processed_check", "read_tags") EXCEPT
                 !.existing = read_file_metadata(LocalFile, cf.filename)]
    /\ UNCHANGED <<proc, hist, assets, temp>>
    /\ UnchangedStore /\ UnchangedSync

\* ProcessedCheck without the early return of main.py 52-59
ProcessedCheckIgnored ==
    /\ At("processed_check")
    /\ cf' = Step("infer", "has_marker")
    /\ UNCHANGED <<proc, hist, assets, temp>>
    /\ UnchangedStore /\ UnchangedSync

\* main.py 52-59: the marker check
ProcessedCheck ==
    /\ At("processed_check")
    /\ IF cfg.skip_processed /\ is_already_processed(LocalFile, cf.filename)
       THEN /\ cf' = [Step("returned", "has_marker") EXCEPT !.ret = NoneObj]
            /\ temp' = Removed(temp, cf.filename)
       ELSE /\ cf' = Step("infer", "has_marker")
            /\ UNCHANGED temp
    /\ UNCHANGED <<proc, hist, assets>>
    /\ UnchangedStore /\ UnchangedSync

\* main.py 63: await parse_metadata_with_ai(filename, existing)
Infer(ok) ==
    /\ At("infer")
    /\ IF ~cfg.api_key
       THEN \* _ensure_openai_client raises MissingAPIKeyError, not caught
            Raise("MissingAPIKeyError")
       ELSE IF ~ok
       THEN /\ cf' = [Step("raised", "infer") EXCEPT !.exc = "RuntimeError", !.at = "infer"]
            /\ proc' = [proc EXCEPT !.pc = "exited", !.exit = 1]
            /\ hist' = Event({<<cf.filename, "infer">>})
       ELSE /\ cf' = [Step("dry_run_check", "infer") EXCEPT
                         !.ai_metadata = Inferred(cf.filename)]
            /\ hist' = Event({<<cf.filename, "infer">>})
            /\ UNCHANGED proc
    /\ UNCHANGED <<assets, temp>>
    /\ UnchangedStore /\ UnchangedSync

\* DryRunCheck without the early return of main.py 65-74
DryRunIgnored ==
    /\ At("dry_run_check")
    /\ cf' = [cf EXCEPT !.pc = "confirm"]
    /\ UNCHANGED <<proc, hist, assets, temp>>
    /\ UnchangedStore /\ UnchangedSync

\* main.py 65-74: the dry-run exit
DryRunCheck ==
    /\ At("dry_run_check")
    /\ IF proc.dry_run
       THEN /\ cf' = [cf EXCEPT !.pc = "returned", !.ret = cf.ai_metadata]
            /\ temp' = Removed(temp, cf.filename)
       ELSE /\ cf' = [cf EXCEPT !.pc = "confirm"]
            /\ UNCHANGED temp
    /\ UNCHANGED <<proc, hist, assets>>
    /\ UnchangedStore /\ UnchangedSync

\* Confirm followed by the asset-record upsert instead of the album upsert
\* (for a confirmation that gives a record)
ConfirmThenTrack ==
    /\ At("confirm")
    /\ \E c \in confirm_metadata(cf.ai_metadata) \ {Coroutine} :
          cf' = [Step("upsert_track", "confirm") EXCEPT !.confirmed = c]
    /\ hist' = Event({<<cf.filename, "confirm">>})
    /\ UNCHANGED <<proc, assets, temp>>
    /\ UnchangedStore /\ UnchangedSync

\* main.py 77: confirmed = confirm_metadata(ai_metadata)
Confirm ==
    /\ At("confirm")
    /\ \E c \in confirm_metadata(cf.ai_metadata) :
          cf' = [Step("upsert_album", "confirm") EXCEPT !.confirmed = c]
    /\ hist' = Event({<<cf.filename, "confirm">>})
    /\ UNCHANGED <<proc, assets, temp>>
    /\ UnchangedStore /\ UnchangedSync

\* main.py 81: upsert_album_metadata(confirmed.album)
UpsertAlbum ==
    /\ At("upsert_album")
    /\ LET rd == _read_album_metadata(albums_csv, CACHE, FALSE)
       IN  IF cf.confirmed = Coroutine
           THEN \* 'coroutine' object has no attribute 'album'
                Raise("AttributeError") /\ UNCHANGED <<albums_csv, CACHE>>
           ELSE IF rd.err
           THEN Raise("KeyError") /\ UNCHANGED <<albums_csv, CACHE>>
           ELSE /\ albums_csv' = _write_csv(UpsertAlbumRows(rd.val, cf.confirmed.album),
                                            ALBUM_FIELDNAMES)
                /\ CACHE' = Invalidate(CACHE, "albums.csv")
                /\ cf' = Step("upsert_track", "upsert_album")
                /\ UNCHANGED <<proc, hist>>
    /\ UNCHANGED <<metadata_csv, storeOp, assets, temp>>
    /\ UnchangedSync

\* main.py 82: upsert_track_metadata(confirmed)
UpsertTrack ==
    /\ At("upsert_track")
    /\ LET rd == _read_track_metadata(metadata_csv, CACHE, FALSE)
       IN  IF rd.err
           THEN Raise("KeyError") /\ UNCHANGED <<metadata_csv, CACHE>>
           ELSE /\ metadata_csv' = _write_csv(UpsertTrackRows(rd.val, cf.confirmed),
                                              TRACK_FIELDNAMES)
                /\ CACHE' = Invalidate(CACHE, "metadata.csv")
                /\ cf' = Step("write_tags", "upsert_track")
                /\ hist' = Event({<<cf.filename, "persist">>})
                /\ UNCHANGED proc
    /\ UNCHANGED <<albums_csv, storeOp, assets, temp>>
    /\ UnchangedSync

\* main.py 86: write_file_metadata(local_path, confirmed)
WriteTags(ok) ==
    /\ At("write_tags")
    /\ IF HasCodec(cf.filename) /\ ~ok
       THEN Raise("MutagenError") /\ UNCHANGED <<assets, temp>>
       ELSE /\ cf' = Step("publish", "write_tags")
            /\ IF cfg.webdav
               THEN /\ temp' = [temp EXCEPT ![cf.filename].file =
                                   write_file_metadata(@, cf.filename, cf.confirmed)]
                    /\ UNCHANGED assets
               ELSE /\ assets' = [assets EXCEPT ![cf.filename] =
                                   write_file_metadata(@, cf.filename, cf.confirmed)]
                    /\ UNCHANGED temp
            /\ UNCHANGED <<proc, hist>>
    /\ UnchangedStore /\ UnchangedSync

\* main.py 90: file_transport.save_file(local_path, base_path, filename)
Publish(ok) ==
    /\ At("publish")
    /\ IF cfg.webdav /\ ~ok
       THEN Raise("WebDavException") /\ UNCHANGED assets
       ELSE /\ cf' = Step("cleanup", "publish")
            /\ assets' = IF cfg.webdav
                         THEN [assets EXCEPT ![cf.filename] = temp[cf.filename].file]
                         ELSE assets
            /\ UNCHANGED <<proc, hist>>
    /\ UNCHANGED temp
    /\ UnchangedStore /\ UnchangedSync

\* main.py 93-100: remove the download, return confirmed
Cleanup ==
    /\ At("cleanup")
    /\ cf' = [Step("returned", "cleanup") EXCEPT !.ret = cf.confirmed]
    /\ temp' = Removed(temp, cf.filename)
    /\ hist' = Event({<<cf.filename, "done">>})
    /\ UNCHANGED <<proc, assets>>
    /\ UnchangedStore /\ UnchangedSync

Next ==
    \/ \E d, n \in BOOLEAN : StartRun(d, n)
    \/ \E c, p \in BOOLEAN : Pull(c, p)
    \/ ListFiles
    \/ Lookup
    \/ \E ok \in BOOLEAN : Fetch(ok)
    \/ ReadTags
    \/ ProcessedCheck
    \/ \E ok \in BOOLEAN : Infer(ok)
    \/ DryRunCheck
    \/ Confirm
    \/ UpsertAlbum
    \/ UpsertTrack
    \/ \E ok \in BOOLEAN : WriteTags(ok)
    \/ \E ok \in BOOLEAN : Publish(ok)
    \/ Cleanup
    \/ NextFile
    \/ \E c, m, p \in BOOLEAN : AfterLoop(c, m, p)
    \/ Interrupt
    \/ \E c, m, p \in BOOLEAN : ExceptKeyboardInterrupt(c, m, p)

Spec == Init /\ [][Next]_vars

----------------------------------------------------------------------------
(* The data layer driven through its public functions *)

\* the number of data-layer calls in one behaviour
MaxStoreOps == 3

AlbumInputs ==
    {AlbumMetadata(Album1, Artist1), AlbumMetadata(Album1, Artist2),
     AlbumMetadata(AlbumCR, Artist1)}

TrackInputs ==
    {TrackMetadata(k, td[1], Artist1, AlbumMetadata(Album1, Artist1), Genre1, td[2]) :
        k \in Keys,
        td \in {<<Title1, None>>, <<Title1, Date1>>, <<TitleCR, Date1>>, <<Title2, <<>> >>}}

\* table files an earlier session can have left in the config directory
InitialTrackFiles ==
    {NoFile,
     CsvFile(TRACK_FIELDNAMES, <<>>),
     CsvFile(LEGACY_TRACK_FIELDNAMES,
             << <<KeyMp3, Title1, Artist2, Album1, Genre1, <<>> >> >>),
     \* a legacy table with two rows (tests/conftest.py legacy_csv_content)
     CsvFile(LEGACY_TRACK_FIELDNAMES,
             << <<KeyMp3, Title1, Artist2, Album1, Genre1, <<>> >>,
                <<KeyWav, Title2, Artist1, Album1, Genre1, Date1>> >>),
     \* a legacy table whose header has no genre column
     CsvFile(<<"key", "track", "artist", "album", "date">>,
             << <<KeyMp3, Title1, Artist2, Album1, Date1>> >>),
     \* a current table with a line that ends after the artist
     CsvFile(TRACK_FIELDNAMES, << <<KeyMp3, Title1, Artist1>> >>),
     \* a current table whose header has no date column
     CsvFile(<<"key", "track", "artist", "album_name", "album_artist", "genre">>,
             << <<KeyMp3, Title1, Artist1, Album1, Artist1, Genre1>> >>)}

InitialAlbumFiles ==
    {NoFile, CsvFile(ALBUM_FIELDNAMES, << <<Album1, Artist1>> >>),
     \* an album table whose header has no artist column
     CsvFile(<<"name">>, << <<Album1>> >>)}

NoOp == [name |-> "none", n |-> 0, raised |-> FALSE, before |-> 0, known |-> FALSE,
         track |-> NoneObj, album |-> NoneObj]

InitStore ==
    /\ metadata_csv \in InitialTrackFiles
    /\ albums_csv \in InitialAlbumFiles
    /\ CACHE = [f \in {"metadata.csv", "albums.csv"} |-> NotCached]
    /\ storeOp = NoOp
    /\ cfg = [sync_repo |-> FALSE, confirm |-> "async_def", webdav |-> FALSE,
              skip_processed |-> TRUE, skip_in_metadata |-> TRUE,
              api_key |-> TRUE, path_ok |-> TRUE]
    /\ clone = NoClone
    /\ remote = SeededTables
    /\ assets = [f \in Range(Files) |-> AudioFile(FALSE, NoneObj)]
    /\ temp = [f \in Range(Files) |-> [exists |-> FALSE, file |-> AudioFile(FALSE, NoneObj)]]
    /\ proc = IdleProc
    /\ cf = NoFrame
    /\ hist = NoHistory
    /\ sync = [p \in Procs |-> NoSync]
    /\ lock = 0
    /\ call = NoCall

\* upsert_track_metadata that writes the table under the header it found
UpsertKeepsHeader(track) ==
    LET rd == _read_track_metadata(metadata_csv, CACHE, FALSE)
        written == _write_csv(UpsertTrackRows(rd.val, track), TRACK_FIELDNAMES)
    IN  /\ storeOp.n < MaxStoreOps
        /\ storeOp' = [name |-> "upsert_track", n |-> storeOp.n + 1,
                       raised |-> rd.err, before |-> Len(rd.val),
                       known |-> \E i \in 1..Len(rd.val) : rd.val[i].key = track.key,
                       track |-> track, album |-> NoneObj]
        /\ IF rd.err
           THEN UNCHANGED <<metadata_csv, CACHE>>
           ELSE /\ metadata_csv' = IF metadata_csv.exists
                                   THEN [written EXCEPT !.header = metadata_csv.header]
                                   ELSE written
                /\ CACHE' = Invalidate(CACHE, "metadata.csv")
        /\ UNCHANGED albums_csv
        /\ UNCHANGED pipeVars

\* upsert_track_metadata(track)
upsert_track_metadata(track) ==
    LET rd == _read_track_metadata(metadata_csv, CACHE, FALSE)
    IN  /\ storeOp.n < MaxStoreOps
        /\ storeOp' = [name |-> "upsert_track", n |-> storeOp.n + 1,
                       raised |-> rd.err, before |-> Len(rd.val),
                       known |-> \E i \in 1..Len(rd.val) : rd.val[i].key = track.key,
                       track |-> track, album |-> NoneObj]
        /\ IF rd.err
           THEN UNCHANGED <<metadata_csv, CACHE>>
           ELSE /\ metadata_csv' = _write_csv(UpsertTrackRows(rd.val, track), TRACK_FIELDNAMES)
                /\ CACHE' = Invalidate(CACHE, "metadata.csv")
        /\ UNCHANGED albums_csv
        /\ UNCHANGED pipeVars

\* upsert_album_metadata(album)
upsert_album_metadata(album) ==
    LET rd == _read_album_metadata(albums_csv, CACHE, FALSE)
    IN  /\ storeOp.n < MaxStoreOps
        /\ storeOp' = [name |-> "upsert_album", n |-> storeOp.n + 1,
                       raised |-> rd.err, before |-> Len(rd.val),
                       known |-> \E i \in 1..Len(rd.val) : rd.val[i].name = album.name,
                       track |-> NoneObj, album |-> album]
        /\ IF rd.err
           THEN UNCHANGED <<albums_csv, CACHE>>
           ELSE /\ albums_csv' = _write_csv(UpsertAlbumRows(rd.val, album), ALBUM_FIELDNAMES)
                /\ CACHE' = Invalidate(CACHE, "albums.csv")
        /\ UNCHANGED metadata_csv
        /\ UNCHANGED pipeVars

\* _read_track_metadata(path, use_cache=True): fills the cache entry
ReadTracksCached ==
    LET rd == _read_track_metadata(metadata_csv, CACHE, TRUE)
    IN  /\ storeOp.n < MaxStoreOps
        /\ storeOp' = [NoOp EXCEPT !.name = "read_tracks", !.n = storeOp.n + 1,
                                    !.raised = rd.err, !.before = Len(rd.val)]
        /\ CACHE' = IF rd.err THEN CACHE
                    ELSE [CACHE EXCEPT !["metadata.csv"] = [cached |-> TRUE, val |-> rd.val]]
        /\ UNCHANGED <<metadata_csv, albums_csv>>
        /\ UNCHANGED pipeVars

\* _read_album_metadata(path, use_cache=True): fills the cache entry
ReadAlbumsCached ==
    LET rd == _read_album_metadata(albums_csv, CACHE, TRUE)
    IN  /\ storeOp.n < MaxStoreOps
        /\ storeOp' = [NoOp EXCEPT !.name = "read_albums", !.n = storeOp.n + 1,
                                    !.raised = rd.err, !.before = Len(rd.val)]
        /\ CACHE' = IF rd.err THEN CACHE
                    ELSE [CACHE EXCEPT !["albums.csv"] = [cached |-> TRUE, val |-> rd.val]]
        /\ UNCHANGED <<metadata_csv, albums_csv>>
        /\ UNCHANGED pipeVars

NextStore ==
    \/ \E t \in TrackInputs : upsert_track_metadata(t)
    \/ \E a \in AlbumInputs : upsert_album_metadata(a)
    \/ ReadTracksCached
    \/ ReadAlbumsCached

SpecStore == InitStore /\ [][NextStore]_vars

----------------------------------------------------------------------------
(* The data layer and pull_metadata called by one process that reads with
   the cache enabled *)

\* a table another host pushed: one record for the second asset
PushedTables ==
    Tables(_write_csv(<<TrackToCsvRow(Inferred(KeyWav))>>, TRACK_FIELDNAMES),
           _write_csv(<<AlbumToCsvRow(Inferred(KeyWav).album)>>, ALBUM_FIELDNAMES))

InitCache ==
    /\ \E t \in {Tables(NoFile, NoFile), KnownTables} :
          /\ metadata_csv = t.metadata
          /\ albums_csv = t.albums
    /\ CACHE = [f \in {"metadata.csv", "albums.csv"} |-> NotCached]
    /\ storeOp = NoOp
    /\ cfg = [sync_repo |-> TRUE, confirm |-> "async_def", webdav |-> FALSE,
              skip_processed |-> TRUE, skip_in_metadata |-> TRUE,
              api_key |-> TRUE, path_ok |-> TRUE]
    /\ clone = NoClone
    /\ remote \in {SeededTables, PushedTables}
    /\ assets = [f \in Range(Files) |-> AudioFile(FALSE, NoneObj)]
    /\ temp = [f \in Range(Files) |-> [exists |-> FALSE, file |-> AudioFile(FALSE, NoneObj)]]
    /\ proc = IdleProc
    /\ cf = NoFrame
    /\ hist = NoHistory
    /\ sync = [p \in Procs |-> NoSync]
    /\ lock = 0
    /\ call = NoCall

\* pull_metadata() with a repository configured: the clone is made if it is
\* missing, git pull --rebase runs and the two files are copied over the
\* tables with shutil.copy2; CACHE is not touched
PullMetadata(cloneOk, pullOk) ==
    LET c == _ensure_repo_cloned(clone, remote, cloneOk)
        res == PullResult(c, remote, pullOk)
    IN  /\ storeOp.n < MaxStoreOps
        /\ storeOp' = [NoOp EXCEPT !.name = "pull", !.n = storeOp.n + 1,
                                    !.raised = (c.state # "git")]
        /\ IF c.state # "git"
           THEN UNCHANGED <<clone, metadata_csv, albums_csv>>
           ELSE /\ clone' = res.clone
                /\ metadata_csv' = res.metadata
                /\ albums_csv' = res.albums
        /\ UNCHANGED <<CACHE, cfg, remote, assets, temp, proc, cf, hist, sync, lock, call>>

NextCache ==
    \/ \E t \in TrackInputs : upsert_track_metadata(t)
    \/ \E a \in AlbumInputs : upsert_album_metadata(a)
    \/ ReadTracksCached
    \/ ReadAlbumsCached
    \/ \E c, p \in BOOLEAN : PullMetadata(c, p)

SpecCache == InitCache /\ [][NextCache]_vars

----------------------------------------------------------------------------
(* src/utils/git_sync.py: set_sync_repo followed by pull_metadata and
   push_metadata, with two repositories; here remote maps a URL to the
   tables at the head of that repository, and call holds config.json's
   sync_repo and the URL the local clone was cloned from *)

\* the number of calls made in one behaviour
MaxRepoOps == 4

\* two repository URLs
Urls == {<<"1">>, <<"2">>}

InitRepo ==
    /\ call = [fn |-> "sync_repo", sync_repo |-> None, origin |-> None,
               last |-> "none", entered |-> FALSE, n |-> 0]
    /\ remote = [u \in Urls |-> IF u = <<"1">> THEN SeededTables ELSE PushedTables]
    /\ clone = NoClone
    /\ \E t \in {Tables(NoFile, NoFile), KnownTables} :
          /\ metadata_csv = t.metadata
          /\ albums_csv = t.albums
    /\ CACHE = [f \in {"metadata.csv", "albums.csv"} |-> NotCached]
    /\ storeOp = NoOp
    /\ cfg = [sync_repo |-> TRUE, confirm |-> "async_def", webdav |-> FALSE,
              skip_processed |-> TRUE, skip_in_metadata |-> TRUE,
              api_key |-> TRUE, path_ok |-> TRUE]
    /\ assets = [f \in Range(Files) |-> AudioFile(FALSE, NoneObj)]
    /\ temp = [f \in Range(Files) |-> [exists |-> FALSE, file |-> AudioFile(FALSE, NoneObj)]]
    /\ proc = IdleProc
    /\ cf = NoFrame
    /\ hist = NoHistory
    /\ sync = [p \in Procs |-> NoSync]
    /\ lock = 0

UnchangedByRepoCall ==
    UNCHANGED <<CACHE, storeOp, cfg, assets, temp, proc, cf, hist, sync, lock>>

\* set_sync_repo(repo_url): config["sync_repo"] = repo_url; the clone in
\* metadata-repo is not looked at
set_sync_repo(repo_url) ==
    /\ call.n < MaxRepoOps
    /\ call' = [call EXCEPT !.sync_repo = repo_url, !.last = "set_sync_repo",
                            !.entered = FALSE, !.n = @ + 1]
    /\ UNCHANGED <<clone, remote, metadata_csv, albums_csv>>
    /\ UnchangedByRepoCall

\* the URL the clone in metadata-repo has as its origin once
\* _ensure_repo_cloned(repo_url) has returned: an existing .git is kept
OriginAfterEnsure(repo_url) ==
    IF clone.state = "git" THEN call.origin ELSE repo_url

\* pull_metadata(): git pull runs in the clone, against the clone's origin
pull_metadata(cloneOk, pullOk) ==
    /\ call.n < MaxRepoOps
    /\ IF ~Truthy(call.sync_repo)
       THEN /\ call' = [call EXCEPT !.last = "pull", !.entered = FALSE, !.n = @ + 1]
            /\ UNCHANGED <<clone, metadata_csv, albums_csv>>
       ELSE LET c == _ensure_repo_cloned(clone, remote[call.sync_repo], cloneOk)
                origin == OriginAfterEnsure(call.sync_repo)
                res == PullResult(c, remote[origin], pullOk)
            IN  IF c.state # "git"
                THEN /\ call' = [call EXCEPT !.last = "pull", !.entered = FALSE, !.n = @ + 1]
                     /\ UNCHANGED <<clone, metadata_csv, albums_csv>>
                ELSE /\ call' = [call EXCEPT !.last = "pull", !.entered = TRUE,
                                             !.origin = origin, !.n = @ + 1]
                     /\ clone' = res.clone
                     /\ metadata_csv' = res.metadata
                     /\ albums_csv' = res.albums
    /\ UNCHANGED remote
    /\ UnchangedByRepoCall

\* push_metadata(): git push runs in the clone, to the clone's origin
push_metadata(cloneOk, commitOk, pushOk) ==
    /\ call.n < MaxRepoOps
    /\ IF ~Truthy(call.sync_repo)
       THEN /\ call' = [call EXCEPT !.last = "push", !.entered = FALSE, !.n = @ + 1]
            /\ UNCHANGED <<clone, remote>>
       ELSE LET c == _ensure_repo_cloned(clone, remote[call.sync_repo], cloneOk)
                origin == OriginAfterEnsure(call.sync_repo)
                res == PushResult(c, remote[origin], commitOk, pushOk)
            IN  IF c.state # "git"
                THEN /\ call' = [call EXCEPT !.last = "push", !.entered = FALSE, !.n = @ + 1]
                     /\ UNCHANGED <<clone, remote>>
                ELSE /\ call' = [call EXCEPT !.last = "push", !.entered = TRUE,
                                             !.origin = origin, !.n = @ + 1]
                     /\ clone' = res.clone
                     /\ remote' = [remote EXCEPT ![origin] = res.remote]
    /\ UNCHANGED <<metadata_csv, albums_csv>>
    /\ UnchangedByRepoCall

NextRepo ==
    \/ \E u \in Urls : set_sync_repo(u)
    \/ \E c, p \in BOOLEAN : pull_metadata(c, p)
    \/ \E c, m, p \in BOOLEAN : push_metadata(c, m, p)

SpecRepo == InitRepo /\ [][NextRepo]_vars

----------------------------------------------------------------------------
(* src/utils/git_sync.py: pull_metadata and push_metadata step by step,  *)
(* called by the local processes that share the configuration directory  *)

\* the number of pull_metadata / push_metadata calls of one process
MaxSyncCalls == 2

\* the steps a process takes while it holds the lock (git_sync.py 114-129,
\* 142-175)
LockedSection ==
    {"ensure", "git_pull", "copy_from", "copy_to", "status", "commit", "push"}

\* records a batch can have written to the two tables between two syncs
BatchRecords ==
    {TrackMetadata(KeyWav, Title1, Artist1, AlbumMetadata(Album1, Artist1), Genre1, None)}

InitSync ==
    /\ cfg \in [sync_repo : BOOLEAN, confirm : {"async_def"}, webdav : {FALSE},
                skip_processed : {TRUE}, skip_in_metadata : {TRUE},
                api_key : {TRUE}, path_ok : {TRUE}]
    /\ \E t \in {Tables(NoFile, NoFile), KnownTables} :
          /\ metadata_csv = t.metadata
          /\ albums_csv = t.albums
    /\ CACHE = [f \in {"metadata.csv", "albums.csv"} |-> NotCached]
    /\ storeOp = NoOp
    /\ remote \in {Tables(NoFile, NoFile), SeededTables}
    /\ clone = NoClone
    /\ assets = [f \in Range(Files) |-> AudioFile(FALSE, NoneObj)]
    /\ temp = [f \in Range(Files) |-> [exists |-> FALSE, file |-> AudioFile(FALSE, NoneObj)]]
    /\ proc = IdleProc
    /\ cf = NoFrame
    /\ hist = NoHistory
    /\ sync = [p \in Procs |-> NoSync]
    /\ lock = 0
    /\ call = NoCall

UnchangedBatch == UNCHANGED <<CACHE, storeOp, cfg, assets, temp, proc, cf, hist, call>>

\* the frame of p with its pc moved and events added to its log
Moved(p, pc, events) == [sync EXCEPT ![p].pc = pc, ![p].log = @ \cup events]

\* the call of p returns ret; leaving the `with` block releases the lock
Returned(p, ret, events) ==
    /\ sync' = [sync EXCEPT ![p].pc = "idle", ![p].ret = ret, ![p].log = @ \cup events]
    /\ lock' = IF lock = p THEN 0 ELSE lock

\* an exception that leaves the call without releasing the lock
RaisedKeepsLock(p, exc, events) ==
    /\ sync' = [sync EXCEPT ![p].pc = "idle", ![p].exc = exc, ![p].log = @ \cup events]
    /\ lock' = lock

\* the call of p raises exc; leaving the `with` block releases the lock
Raised(p, exc, events) ==
    /\ sync' = [sync EXCEPT ![p].pc = "idle", ![p].exc = exc, ![p].log = @ \cup events]
    /\ lock' = IF lock = p THEN 0 ELSE lock

\* process p calls pull_metadata() or push_metadata()
Call(p, fn) ==
    /\ sync[p].pc = "idle"
    /\ sync[p].calls < MaxSyncCalls
    /\ sync' = [sync EXCEPT ![p] = [NoSync EXCEPT !.pc = "config", !.fn = fn,
                                                  !.calls = sync[p].calls + 1]]
    /\ UNCHANGED <<metadata_csv, albums_csv, clone, remote, lock>>
    /\ UnchangedBatch

\* CheckConfig that goes on without a configured repository
CheckConfigIgnored(p) ==
    /\ sync[p].pc = "config"
    /\ sync' = Moved(p, "acquire", {})
    /\ UNCHANGED <<metadata_csv, albums_csv, clone, remote, lock>>
    /\ UnchangedBatch

\* git_sync.py 110-112, 138-140: `if not repo_url: return False`
CheckConfig(p) ==
    /\ sync[p].pc = "config"
    /\ IF cfg.sync_repo
       THEN sync' = Moved(p, "acquire", {}) /\ UNCHANGED lock
       ELSE Returned(p, "False", {})
    /\ UNCHANGED <<metadata_csv, albums_csv, clone, remote>>
    /\ UnchangedBatch

\* Acquire that does not look at the holder of the lock
AcquireUnlocked(p) ==
    /\ sync[p].pc = "acquire"
    /\ lock' = p
    /\ sync' = [Moved(p, "ensure", {"lock"}) EXCEPT ![p].ahead0 = clone.ahead]
    /\ UNCHANGED <<metadata_csv, albums_csv, clone, remote>>
    /\ UnchangedBatch

\* git_sync.py 114, 142: `with _get_repo_lock():` when the lock is free
Acquire(p) ==
    /\ sync[p].pc = "acquire"
    /\ lock = 0
    /\ lock' = p
    /\ sync' = [Moved(p, "ensure", {"lock"}) EXCEPT ![p].ahead0 = clone.ahead]
    /\ UNCHANGED <<metadata_csv, albums_csv, clone, remote>>
    /\ UnchangedBatch

\* git_sync.py 29: FileLock(timeout=30) raises Timeout when another process
\* keeps the lock for the whole wait
LockTimeout(p) ==
    /\ sync[p].pc = "acquire"
    /\ lock \notin {0, p}
    /\ Raised(p, "Timeout", {})
    /\ UNCHANGED <<metadata_csv, albums_csv, clone, remote>>
    /\ UnchangedBatch

\* git_sync.py 115, 143: repo_dir = _ensure_repo_cloned(repo_url)
EnsureCloned(p, cloneOk) ==
    LET c == _ensure_repo_cloned(clone, remote, cloneOk)
    IN  /\ sync[p].pc = "ensure"
        /\ IF c.state # "git"
           THEN Raised(p, "RuntimeError", {"git", "clone_failed"}) /\ UNCHANGED clone
           ELSE /\ clone' = c
                /\ sync' = Moved(p, IF sync[p].fn = "pull" THEN "git_pull" ELSE "copy_to",
                                 IF clone.state = "git" THEN {} ELSE {"git", "clone"})
                /\ UNCHANGED lock
        /\ UNCHANGED <<metadata_csv, albums_csv, remote>>
        /\ UnchangedBatch

\* git_sync.py 119-122: git pull --rebase, a failure is logged and swallowed
GitPull(p, pullOk) ==
    /\ sync[p].pc = "git_pull"
    /\ clone' = GitPullRebase(clone, remote, pullOk)
    /\ sync' = Moved(p, "copy_from", IF pullOk THEN {"git"} ELSE {"git", "pull_failed"})
    /\ UNCHANGED <<metadata_csv, albums_csv, remote, lock>>
    /\ UnchangedBatch

\* CopyFrom that copies metadata.csv only
CopyFromMetadataOnly(p) ==
    /\ sync[p].pc = "copy_from"
    /\ metadata_csv' = CopyIfExists(clone.work.metadata, metadata_csv)
    /\ Returned(p, "True", {"copy"})
    /\ UNCHANGED <<albums_csv, clone, remote>>
    /\ UnchangedBatch

\* git_sync.py 125-129: the two files are copied from the clone
CopyFrom(p) ==
    /\ sync[p].pc = "copy_from"
    /\ metadata_csv' = CopyIfExists(clone.work.metadata, metadata_csv)
    /\ albums_csv' = CopyIfExists(clone.work.albums, albums_csv)
    /\ Returned(p, "True", {"copy"})
    /\ UNCHANGED <<clone, remote>>
    /\ UnchangedBatch

\* git_sync.py 146-147: the two files are copied into the clone
CopyTo(p) ==
    /\ sync[p].pc = "copy_to"
    /\ clone' = [clone EXCEPT !.work = Tables(CopyIfExists(metadata_csv, clone.work.metadata),
                                               CopyIfExists(albums_csv, clone.work.albums))]
    /\ sync' = Moved(p, "status", {"copy"})
    /\ UNCHANGED <<metadata_csv, albums_csv, remote, lock>>
    /\ UnchangedBatch

\* git_sync.py 150-153: git status --porcelain; a clean tree returns True
Status(p) ==
    /\ sync[p].pc = "status"
    /\ IF clone.work = clone.head
       THEN Returned(p, "True", {"git"})
       ELSE /\ sync' = [Moved(p, "commit", {"git"}) EXCEPT ![p].dirty = TRUE]
            /\ UNCHANGED lock
    /\ UNCHANGED <<metadata_csv, albums_csv, clone, remote>>
    /\ UnchangedBatch

\* git_sync.py 150, 157: _run_git with check=True (git status, git add)
\* raises CalledProcessError when the command fails
GitCommandFails(p) ==
    /\ sync[p].pc \in {"status", "commit"}
    /\ Raised(p, "CalledProcessError", {"git", "command_failed"})
    /\ UNCHANGED <<metadata_csv, albums_csv, clone, remote>>
    /\ UnchangedBatch

\* git_sync.py 157-166: git add, git commit; a failed commit returns False
Commit(p, commitOk) ==
    /\ sync[p].pc = "commit"
    /\ IF commitOk
       THEN /\ clone' = [clone EXCEPT !.head = clone.work, !.ahead = TRUE]
            /\ sync' = Moved(p, "push", {"commit"})
            /\ UNCHANGED lock
       ELSE Returned(p, "False", {"commit_failed"}) /\ UNCHANGED clone
    /\ UNCHANGED <<metadata_csv, albums_csv, remote>>
    /\ UnchangedBatch

\* GitPush that reports success without delivering the commits
GitPushNothing(p, pushOk) ==
    /\ sync[p].pc = "push"
    /\ IF pushOk
       THEN Returned(p, "True", {"push"}) /\ UNCHANGED <<clone, remote>>
       ELSE Returned(p, "False", {"push_failed"}) /\ UNCHANGED <<clone, remote>>
    /\ UNCHANGED <<metadata_csv, albums_csv>>
    /\ UnchangedBatch

\* git_sync.py 168-175: git push; a failed push returns False
GitPush(p, pushOk) ==
    /\ sync[p].pc = "push"
    /\ IF pushOk
       THEN /\ remote' = clone.head
            /\ clone' = [clone EXCEPT !.ahead = FALSE]
            /\ Returned(p, "True", {"push"})
       ELSE Returned(p, "False", {"push_failed"}) /\ UNCHANGED <<clone, remote>>
    /\ UNCHANGED <<metadata_csv, albums_csv>>
    /\ UnchangedBatch

\* a batch of a process that is not inside a sync call upserts a record
\* (main.py 81-82)
BatchUpsert(p, t) ==
    /\ sync[p].pc = "idle"
    /\ albums_csv' = _write_csv(UpsertAlbumRows(ReadAlbumsUncached(albums_csv).val, t.album),
                                ALBUM_FIELDNAMES)
    /\ metadata_csv' = _write_csv(UpsertTrackRows(ReadTracksUncached(metadata_csv).val, t),
                                  TRACK_FIELDNAMES)
    /\ <<metadata_csv', albums_csv'>> # <<metadata_csv, albums_csv>>
    /\ UNCHANGED <<clone, remote, sync, lock>>
    /\ UnchangedBatch

NextSync ==
    \E p \in Procs :
        \/ \E fn \in {"pull", "push"} : Call(p, fn)
        \/ CheckConfig(p)
        \/ Acquire(p)
        \/ LockTimeout(p)
        \/ \E cloneOk \in BOOLEAN : EnsureCloned(p, cloneOk)
        \/ \E pullOk \in BOOLEAN : GitPull(p, pullOk)
        \/ CopyFrom(p)
        \/ CopyTo(p)
        \/ Status(p)
        \/ GitCommandFails(p)
        \/ \E commitOk \in BOOLEAN : Commit(p, commitOk)
        \/ \E pushOk \in BOOLEAN : GitPush(p, pushOk)
        \/ \E t \in BatchRecords : BatchUpsert(p, t)

SpecSync == InitSync /\ [][NextSync]_vars

----------------------------------------------------------------------------
(* src/utils/file_transport.py: LocalTransport.list_files *)

\* str.replace(old, ""): every occurrence of old, left to right, is removed
RECURSIVE Remove(_, _)
Remove(s, old) ==
    IF Len(s) < Len(old) THEN s
    ELSE IF SubSeq(s, 1, Len(old)) = old
         THEN Remove(SubSeq(s, Len(old) + 1, Len(s)), old)
         ELSE <<s[1]>> \o Remove(Tail(s), old)

\* str.lstrip(c)
RECURSIVE LStrip(_, _)
LStrip(s, c) == IF s # <<>> /\ s[1] = c THEN LStrip(Tail(s), c) ELSE s

\* the last index of character c in s, 0 when it does not occur
LastIndex(s, c) ==
    LET I == {i \in 1..Len(s) : s[i] = c}
    IN  IF I = {} THEN 0 ELSE CHOOSE i \in I : \A j \in I : j <= i

\* os.path.join(a, b) on POSIX
PathJoin(a, b) ==
    IF b # <<>> /\ b[1] = "/" THEN b
    ELSE IF a = <<>> \/ a[Len(a)] = "/" THEN a \o b
    ELSE a \o <<"/">> \o b

\* os.path.splitext(p)[1]: from the last dot of the last component, unless
\* only dots precede it there
SplitExt(p) ==
    LET sep == LastIndex(p, "/")
        dot == LastIndex(p, ".")
    IN  IF dot > sep /\ \E i \in (sep + 1)..(dot - 1) : p[i] # "."
        THEN SubSeq(p, dot, Len(p))
        ELSE <<>>

AUDIO_EXTENSIONS ==
    {<<".", "m", "p", "3">>, <<".", "f", "l", "a", "c">>, <<".", "m", "4", "a">>,
     <<".", "m", "p", "4">>, <<".", "o", "p", "u", "s">>, <<".", "o", "g", "g">>,
     <<".", "w", "a", "v">>, <<".", "a", "i", "f", "f">>, <<".", "a", "i", "f">>}

is_audio_file(path) == SplitExt(Lower(path)) \in AUDIO_EXTENSIONS

\* a directory entry as os.listdir and os.path.isdir report it
File(name) == [name |-> name, isdir |-> FALSE, entries |-> <<>>]
Dir(name, entries) == [name |-> name, isdir |-> TRUE, entries |-> entries]

\* LocalTransport.list_files(path, initial_path), entries being
\* os.listdir(path): the sequence of paths the generator yields
RECURSIVE list_files(_, _, _)
list_files(path, initial_path, entries) ==
    IF entries = <<>> THEN <<>>
    ELSE LET entry == Head(entries)
             full_path == PathJoin(path, entry.name)
             yielded ==
                 IF entry.isdir
                 THEN list_files(full_path, initial_path, entry.entries)
                 ELSE IF is_audio_file(entry.name)
                 THEN << LStrip(Remove(full_path, initial_path), "/") >>
                 ELSE <<>>
         IN  yielded \o list_files(path, initial_path, Tail(entries))

\* LocalTransport.load_file(path, initial_path)
load_file(path, initial_path) == PathJoin(initial_path, path)

----------------------------------------------------------------------------
(* src/utils/config.py, src/utils/file_transport.py: WebDAV credentials *)

\* a pair of credentials; None where one is not there
Credentials(username, password) == [username |-> username, password |-> password]

\* get_webdav_credentials with the environment and the "webdav" section of
\* config.json as they are: preferring the file to the environment
GetCredentialsFileFirst(env, config) ==
    <<Or(config.username, env.username), Or(config.password, env.password)>>

\* get_webdav_credentials(): env is os.environ.get of WEBDAV_USERNAME and
\* WEBDAV_PASSWORD, config is load_config().get("webdav", {})
get_webdav_credentials(env, config) ==
    IF Truthy(env.username) /\ Truthy(env.password)
    THEN <<env.username, env.password>>
    ELSE <<Or(env.username, config.username), Or(env.password, config.password)>>

\* WebdavTransport.__init__(webdav_host, username, password): webdav_config
WebdavTransport(username, password, env, config) ==
    LET stored == get_webdav_credentials(env, config)
        lookup == username = None \/ password = None
    IN  [webdav_login |-> IF lookup THEN Or(username, stored[1]) ELSE username,
         webdav_password |-> IF lookup THEN Or(password, stored[2]) ELSE password]

----------------------------------------------------------------------------
(* src/utils/ai_metadata.py: parse_metadata_with_ai on the model's answer *)

\* The text of an answer is a sequence of lexemes: the two braces, the
\* members of an object, a JSON array, the opening and the closing line of a
\* markdown fence, and any other text.
LBrace == [t |-> "{"]
RBrace == [t |-> "}"]
Member(k, v) == [t |-> "member", k |-> k, v |-> v]
AlbumMember(name, artist) == [t |-> "album", name |-> name, artist |-> artist]
Array == [t |-> "[]"]
FenceOpen == [t |-> "fence_open"]
FenceClose == [t |-> "fence_close"]
Prose == [t |-> "text"]

\* message.content is None
NoContent == <<[t |-> "None"]>>

\* the indices of the lexemes of kind t
Indices(text, t) == {i \in 1..Len(text) : text[i].t = t}

Min(S) == CHOOSE i \in S : \A j \in S : i <= j
Max(S) == CHOOSE i \in S : \A j \in S : j <= i

\* re.sub of _extract_json: a fence line at the start and one at the end of
\* text.strip() are dropped
StripFence(text) ==
    LET a == IF text # <<>> /\ text[1].t = FenceOpen.t THEN Tail(text) ELSE text
    IN  IF a # <<>> /\ a[Len(a)].t = FenceClose.t THEN SubSeq(a, 1, Len(a) - 1) ELSE a

\* _extract_json(text)
_extract_json(text) ==
    LET fenced == StripFence(text)
        open == Indices(text, LBrace.t)
        close == Indices(text, RBrace.t)
    IN  IF fenced # <<>> /\ fenced[1].t = LBrace.t /\ fenced[Len(fenced)].t = RBrace.t
        THEN fenced
        ELSE IF open # {} /\ \E j \in close : j > Min(open)
        THEN SubSeq(text, Min(open), Max(close))
        ELSE text

\* json.loads(json_str): an object, an array, or JSONDecodeError
JsonLoads(json_str) ==
    IF /\ Len(json_str) >= 2
       /\ json_str[1].t = LBrace.t /\ json_str[Len(json_str)].t = RBrace.t
       /\ \A i \in 2..(Len(json_str) - 1) : json_str[i].t \in {"member", "album"}
    THEN [ok |-> TRUE, kind |-> "dict", members |-> SubSeq(json_str, 2, Len(json_str) - 1)]
    ELSE IF json_str = <<Array>>
    THEN [ok |-> TRUE, kind |-> "list", members |-> <<>>]
    ELSE [ok |-> FALSE, kind |-> "", members |-> <<>>]

\* data.get(k) for a string member: the last one wins, None without one
DataGet(members, k) ==
    LET I == {i \in 1..Len(members) : members[i].t = "member" /\ members[i].k = k}
    IN  IF I = {} THEN None ELSE members[Max(I)].v

\* data.get("album") or {}
AlbumData(members) ==
    LET I == Indices(members, "album")
    IN  IF I = {} THEN AlbumMember(None, None) ELSE members[Max(I)]

\* parse_metadata_with_ai(filename, existing) when the completion holds
\* content: the record returned or the exception raised
parse_metadata_with_ai(filename, content) ==
    LET text == IF content = NoContent \/ content = <<>> THEN <<LBrace, RBrace>>
                ELSE content
        data == JsonLoads(_extract_json(text))
        album_data == AlbumData(data.members)
        ai_album == AlbumMetadata(Or(album_data.name, <<>>),
                                  Or(album_data.artist,
                                     Or(DataGet(data.members, "artist"), <<>>)))
    IN  IF ~data.ok THEN [raised |-> "RuntimeError", ret |-> NoneObj]
        ELSE IF data.kind # "dict" THEN [raised |-> "AttributeError", ret |-> NoneObj]
        ELSE [raised |-> "",
              ret |-> TrackMetadata(filename,
                                    Or(DataGet(data.members, "track"), <<>>),
                                    Or(DataGet(data.members, "artist"), ai_album.artist),
                                    ai_album,
                                    Or(DataGet(data.members, "genre"), <<>>),
                                    DataGet(data.members, "date"))]

----------------------------------------------------------------------------
(* src/utils/file_metadata.py: the sentinel marker in the comment tag *)

\* utils/constants.py PROCESSED_MARKER
PROCESSED_MARKER == <<"#">>

\* the values a comment tag holds: str or bytes
Str(v) == [type |-> "str", v |-> v]
Bytes(v) == [type |-> "bytes", v |-> v]

\* what tags.get("comment") evaluates to: None, one str, or a list
NoComment == [kind |-> "none", items |-> <<>>]
OneComment(v) == [kind |-> "str", items |-> <<Str(v)>>]
CommentList(items) == [kind |-> "list", items |-> items]

\* bytes.decode("utf-8", errors="ignore"): bytes that are not valid UTF-8
\* (written "?" here) are dropped
Decode(b) == SelectSeq(b, LAMBDA c : c # "?")

\* the str a value of a comment list is taken as
AsText(item) == IF item.type = "bytes" THEN Decode(item.v) ELSE item.v

\* _merge_comment that appends the marker without looking for it
MergeAlwaysAppends(existing, marker) ==
    [i \in 1..Len(existing.items) |-> AsText(existing.items[i])] \o <<marker>>

\* _merge_comment(existing, marker): the list of str the tag is set to
_merge_comment(existing, marker) ==
    LET values == [i \in 1..Len(existing.items) |-> AsText(existing.items[i])]
    IN  IF \E i \in 1..Len(values) : values[i] = marker
        THEN values
        ELSE values \o <<marker>>

\* _has_marker_in_list(value_list, marker): marker is a substring of a value
_has_marker_in_list(value_list, marker) ==
    \E i \in 1..Len(value_list.items) :
        LET v == AsText(value_list.items[i])
        IN  \E a \in 1..(Len(v) + 1 - Len(marker)) :
                SubSeq(v, a, a + Len(marker) - 1) = marker

----------------------------------------------------------------------------
(* Library functions called on their own, one call per behaviour *)

\* the root directories list_files is called on (absolute, as cmd_process
\* passes them after validate_path)
Roots == {<<"/", "m">>, <<"/", "r">>}

\* file names: two recognized extensions, one in upper case, one unrecognized
FileNames ==
    <<File(<<"x", ".", "m", "p", "3">>), File(<<"y", ".", "M", "P", "3">>),
      File(<<"z", ".", "w", "a", "v">>), File(<<"n", ".", "t", "x", "t">>)>>

\* names of subdirectories
DirNames == {<<"m">>, <<"d">>}

\* the entries of cands that are in S, in the order of cands
Pick(cands, S) == SelectSeq(cands, LAMBDA e : e \in S)

\* directory trees: some files, and at most one subdirectory holding files
Trees ==
    {Pick(FileNames, S) \o sub :
        S \in SUBSET Range(FileNames),
        sub \in {<<>>} \cup
                {<<Dir(n, Pick(FileNames, T))>> :
                    n \in DirNames, T \in SUBSET Range(FileNames)}}

\* what one source can hold for a credential: nothing, the empty string, v
Held(v) == {None, <<>>, v}

\* the call-time arguments, the environment and the configuration file
ExplicitCredentials ==
    {Credentials(u, p) : u \in Held(<<"a">>), p \in Held(<<"b">>)}
EnvCredentials ==
    {Credentials(u, p) : u \in Held(<<"c">>), p \in Held(<<"d">>)}
FileCredentials ==
    {Credentials(u, p) : u \in Held(<<"e">>), p \in Held(<<"f">>)}

TransportCalls ==
    {[fn |-> "WebdavTransport", username |-> x.username, password |-> x.password,
      env |-> e, config |-> f,
      ret |-> [webdav_login |-> None, webdav_password |-> None], done |-> FALSE] :
        x \in ExplicitCredentials, e \in EnvCredentials, f \in FileCredentials}

\* the members of a complete answer for an asset
FullAnswer(filename) ==
    <<Member("track", Title1), Member("artist", Artist1),
      AlbumMember(Album1, Artist1), Member("genre", Genre1),
      Member("date", ResponseDate(filename))>>

\* what the completion can hold: nothing, the empty string, prose, an empty
\* object, a complete object bare, fenced or inside prose, an object with a
\* title only or with nulls, a cut-off object, an array
Contents(filename) ==
    {NoContent, <<>>, <<Prose>>, <<LBrace, RBrace>>,
     <<LBrace>> \o FullAnswer(filename) \o <<RBrace>>,
     <<FenceOpen, LBrace>> \o FullAnswer(filename) \o <<RBrace, FenceClose>>,
     <<Prose, LBrace>> \o FullAnswer(filename) \o <<RBrace, Prose>>,
     <<LBrace, Member("track", Title1), RBrace>>,
     <<LBrace, Member("track", None), AlbumMember(None, Artist2), RBrace>>,
     <<LBrace, Member("track", Title1)>>,
     <<LBrace, Prose, RBrace>>,
     <<Array>>}

ParseCalls ==
    UNION {{[fn |-> "parse_metadata_with_ai", filename |-> f, content |-> c,
             raised |-> "", ret |-> NoneObj, done |-> FALSE] : c \in Contents(f)} :
           f \in Keys}

\* how many times one asset is written by write_file_metadata
MaxWrites == 2

\* comment values an asset carries before it is classified: plain text, text
\* quoting the marker, the marker itself, bytes, bytes with an invalid byte
CommentValues ==
    {Str(<<"c">>), Str(<<"c", "#">>), Str(PROCESSED_MARKER),
     Bytes(<<"d">>), Bytes(<<"d", "?">>)}

Comments ==
    {NoComment, OneComment(<<"c">>), OneComment(PROCESSED_MARKER)}
    \cup {CommentList(<<>>)}
    \cup {CommentList(<<a>>) : a \in CommentValues}
    \cup {CommentList(<<a, b>>) : a, b \in CommentValues}

MergeCalls ==
    {[fn |-> "_merge_comment", existing |-> c, before |-> NoComment,
      writes |-> 0, done |-> FALSE] : c \in Comments}

ListCalls ==
    {[fn |-> "list_files", path |-> r, entries |-> t, ret |-> <<>>, done |-> FALSE,
      loaded |-> <<>>, fetched |-> FALSE] :
        r \in Roots, t \in Trees}

\* one asset path for every extension list_files lets through
TagPaths == {<<"s">> \o e : e \in AUDIO_EXTENSIONS}

\* write_file_metadata(path, meta) on an asset without the marker, followed
\* by is_already_processed(path)
TagCalls ==
    {[fn |-> "write_file_metadata", path |-> p, file |-> AudioFile(FALSE, NoneObj),
      meta |-> Inferred(KeyMp3), raised |-> "", processed |-> FALSE, done |-> FALSE] :
        p \in TagPaths}

LibCalls == ListCalls \cup TransportCalls \cup ParseCalls \cup MergeCalls \cup TagCalls

InitLib ==
    /\ call \in LibCalls
    /\ metadata_csv = NoFile
    /\ albums_csv = NoFile
    /\ CACHE = [f \in {"metadata.csv", "albums.csv"} |-> NotCached]
    /\ storeOp = NoOp
    /\ cfg = [sync_repo |-> FALSE, confirm |-> "async_def", webdav |-> FALSE,
              skip_processed |-> TRUE, skip_in_metadata |-> TRUE,
              api_key |-> TRUE, path_ok |-> TRUE]
    /\ clone = NoClone
    /\ remote = SeededTables
    /\ assets = [f \in Range(Files) |-> AudioFile(FALSE, NoneObj)]
    /\ temp = [f \in Range(Files) |-> [exists |-> FALSE, file |-> AudioFile(FALSE, NoneObj)]]
    /\ proc = IdleProc
    /\ cf = NoFrame
    /\ hist = NoHistory
    /\ sync = [p \in Procs |-> NoSync]
    /\ lock = 0

UnchangedProgram ==
    UNCHANGED <<metadata_csv, albums_csv, CACHE, storeOp, cfg, clone, remote,
                assets, temp, proc, cf, hist, sync, lock>>

\* list(file_transport.list_files(path))
ListFilesCall ==
    /\ call.fn = "list_files" /\ ~call.done
    /\ call' = [call EXCEPT !.ret = list_files(call.path, call.path, call.entries),
                            !.done = TRUE]
    /\ UnchangedProgram

\* file_transport.load_file(filename, base_path) for every path of the list,
\* as process_files hands them to classify_filename (src/main.py 45)
LoadFilesCall ==
    /\ call.fn = "list_files" /\ call.done /\ ~call.fetched
    /\ call' = [call EXCEPT
                   !.loaded = [i \in 1..Len(call.ret) |-> load_file(call.ret[i], call.path)],
                   !.fetched = TRUE]
    /\ UnchangedProgram

\* FileTransport(TransportType.WEBDAV, webdav_host, webdav_username, webdav_password)
NewWebdavTransport ==
    /\ call.fn = "WebdavTransport" /\ ~call.done
    /\ call' = [call EXCEPT !.ret = WebdavTransport(call.username, call.password,
                                                    call.env, call.config),
                            !.done = TRUE]
    /\ UnchangedProgram

\* await parse_metadata_with_ai(filename, existing)
ParseCall ==
    /\ call.fn = "parse_metadata_with_ai" /\ ~call.done
    /\ LET res == parse_metadata_with_ai(call.filename, call.content)
       IN  call' = [call EXCEPT !.raised = res.raised, !.ret = res.ret, !.done = TRUE]
    /\ UnchangedProgram

\* _write_flac, _write_mp4, _write_ogg_opus, _write_ogg_vorbis:
\* tags["comment"] = _merge_comment(tags.get("comment"), PROCESSED_MARKER);
\* the comment tag then holds the list that was assigned
WriteComment ==
    /\ call.fn = "_merge_comment"
    /\ call.writes < MaxWrites
    /\ LET merged == _merge_comment(call.existing, PROCESSED_MARKER)
       IN  call' = [call EXCEPT
                      !.before = call.existing,
                      !.existing = CommentList([i \in 1..Len(merged) |-> Str(merged[i])]),
                      !.writes = @ + 1,
                      !.done = TRUE]
    /\ UnchangedProgram

\* write_file_metadata(path, meta), which re-raises the MutagenError of a
\* codec (ok: the codec saves the file), then is_already_processed(path)
WriteTagsCall(ok) ==
    /\ call.fn = "write_file_metadata" /\ ~call.done
    /\ IF HasCodec(call.path) /\ ~ok
       THEN call' = [call EXCEPT !.raised = "MutagenError", !.done = TRUE]
       ELSE LET written == write_file_metadata(call.file, call.path, call.meta)
            IN  call' = [call EXCEPT !.file = written,
                                     !.processed = is_already_processed(written, call.path),
                                     !.done = TRUE]
    /\ UnchangedProgram

NextLib ==
    \/ \E ok \in BOOLEAN : WriteTagsCall(ok)
    \/ ListFilesCall
    \/ LoadFilesCall
    \/ NewWebdavTransport
    \/ ParseCall
    \/ WriteComment

SpecLib == InitLib /\ [][NextLib]_vars

----------------------------------------------------------------------------
(* Claims on the classification pipeline and the batch run *)

\* the asset in flight had a record in the store when classify_filename was
\* entered
KnownAtStart ==
    LET t0 == ReadTracksUncached(cf.store0.metadata).val
    IN  \E i \in 1..Len(t0) : t0[i].key = cf.filename

\* the tag codec saw the sentinel marker on the asset when classify_filename
\* was entered
MarkedAtStart == HasCodec(cf.filename) /\ cf.asset0.marker

\* classify_filename has returned or raised
Finished == cf.pc \in {"returned", "raised"}

\* the two tables are as they were when classify_filename was entered
StoreUntouched == Tables(metadata_csv, albums_csv) = cf.store0

\* a collaborator failed or the operator interrupted
CollaboratorFailed ==
    cf.exc \in {"WebDavException", "RuntimeError", "MutagenError", "KeyboardInterrupt"}

\* C1: for an asset with no record in the store and no sentinel marker,
\* with both skip checks enabled and dry-run disabled, classify_filename
\* (when no collaborator fails) goes through inference and confirmation and
\* ends with the album and the asset record upserted, the tags and the marker
\* written and published, returning the operator-confirmed record.
C1_NewAssetClassified ==
    (/\ Finished
     /\ cfg.skip_in_metadata /\ cfg.skip_processed /\ ~proc.dry_run
     /\ ~KnownAtStart /\ ~cf.asset0.marker
     /\ ~CollaboratorFailed)
    => /\ cf.pc = "returned"
       /\ cf.ret \in ConfirmResults(Inferred(cf.filename))
       /\ get_file_metadata(metadata_csv, cf.filename) = cf.ret
       /\ get_album_metadata(albums_csv, cf.ret.album.name) = cf.ret.album
       /\ assets[cf.filename] = AudioFile(TRUE, cf.ret)

\* C2: when skipIfInStore is enabled and the store holds a record whose key
\* is the asset's relative path, classify_filename returns the skipped result
\* at Start: no fetch, no tag codec call, no inference, no confirmation, no
\* publish, and neither table is changed.
C2_KnownAssetSkipped ==
    (cf.pc # "none" /\ cfg.skip_in_metadata /\ KnownAtStart)
    => /\ cf.trace \in {<<>>, <<"lookup">>}
       /\ cf.pc = "returned" => cf.ret = NoneObj
       /\ cf.pc = "raised" => cf.exc = "KeyboardInterrupt"
       /\ StoreUntouched
       /\ assets[cf.filename] = cf.asset0
       /\ \A e \in hist.cur : e[1] # cf.filename

\* a known asset was skipped at Start
C2_Witness ==
    /\ cfg.skip_in_metadata /\ KnownAtStart
    /\ cf.pc = "returned" /\ cf.trace = <<"lookup">>

\* C3: when dry-run is enabled and the asset is not skipped, the inference
\* collaborator is invoked and its proposal returned, the confirmation
\* collaborator is never called, neither table is changed, no tags are
\* written and nothing is published.
C3_DryRunOnlyInfers ==
    (/\ cf.pc # "none" /\ proc.dry_run
     /\ ~(cfg.skip_in_metadata /\ KnownAtStart)
     /\ ~(cfg.skip_processed /\ MarkedAtStart))
    => /\ cf.pc = "returned" =>
            /\ cf.ret = Inferred(cf.filename)
            /\ <<cf.filename, "infer">> \in hist.cur
       /\ <<cf.filename, "confirm">> \notin hist.cur
       /\ \A i \in 1..Len(cf.trace) :
            cf.trace[i] \notin {"confirm", "upsert_album", "upsert_track",
                                "write_tags", "publish"}
       /\ StoreUntouched
       /\ assets[cf.filename] = cf.asset0

\* a dry run returned the proposal of the inference collaborator
C3_Witness ==
    /\ proc.dry_run /\ cf.pc = "returned"
    /\ cf.ret = Inferred(cf.filename)
    /\ <<cf.filename, "infer">> \in hist.cur

MidAsset ==
    {"read_tags", "processed_check", "infer", "dry_run_check", "confirm",
     "upsert_album", "upsert_track", "write_tags", "publish", "cleanup"}

\* C8: a cancellation that arrives while an asset is between Fetched and Done
\* does not stop that asset: it runs to a terminal state before the batch
\* stops, so no asset is left persisted but untagged or unpublished.
C8_NoAssetStoppedMidWay ==
    (cf.exc = "KeyboardInterrupt")
    => /\ cf.at \notin MidAsset
       /\ \A f \in Range(Files) :
             <<f, "persist">> \in hist.cur => <<f, "done">> \in hist.cur

\* the asset records a state holds in memory: the frame of classify_filename
\* and what the store reads
RecordsInMemory ==
    {r \in {cf.existing, cf.ai_metadata, cf.confirmed, cf.ret} :
        r \notin {NoneObj, Coroutine}}
    \cup Range(ReadTracksUncached(metadata_csv).val)

\* C20: every asset record in memory (read from the store or the tags,
\* returned by the inference, by the confirmation or by a dry run) has a date
\* that is absent or a non-empty string, never the empty string.
C20_NoEmptyDate ==
    \A r \in RecordsInMemory : r.date = None \/ r.date # <<>>

\* classify_filename got past load_file for the asset in flight
Fetched == \E i \in 1..Len(cf.trace) : cf.trace[i] = "fetch"

\* C22: whenever classify_filename finishes with an asset after the fetch
\* (skipped as already processed, dry run, success or a failure of that
\* asset), the local working copy has been deleted if the transport owns it
\* (WebDAV) and nothing has been deleted if it does not (local).
C22_ScratchCopyDeleted ==
    (cf.pc \in {"returned", "raised"} /\ cf.exc # "KeyboardInterrupt" /\ Fetched)
    => IF cfg.webdav
       THEN ~temp[cf.filename].exists
       ELSE /\ cf.filename \in DOMAIN assets
            /\ \A f \in Range(Files) : ~temp[f].exists

C24_ConfigErrorBeforeProcessing ==
    (proc.run > 0 /\ (~cfg.api_key \/ ~cfg.path_ok))
    => /\ proc.pc = "exited" /\ proc.exit > 0
       /\ cf.pc = "none"
       /\ hist.cur = {}

\* the steps of classify_filename up to the marker check
SkippedTrace == <<"lookup", "fetch", "read_tags", "has_marker">>

\* C29: when skipIfProcessed is enabled and the fetched copy carries the
\* sentinel marker, classify_filename exits with the skipped result after the
\* fetch and the tag read: inference and confirmation are never invoked,
\* neither table is changed, no tags are written and nothing is published.
C29_MarkedAssetSkipped ==
    (/\ cf.pc # "none" /\ cfg.skip_processed /\ MarkedAtStart
     /\ ~(cfg.skip_in_metadata /\ KnownAtStart))
    => /\ Len(cf.trace) <= Len(SkippedTrace)
       /\ cf.trace = SubSeq(SkippedTrace, 1, Len(cf.trace))
       /\ cf.pc = "returned" => cf.ret = NoneObj /\ cf.trace = SkippedTrace
       /\ cf.pc = "raised" => cf.exc \in {"KeyboardInterrupt", "WebDavException"}
       /\ StoreUntouched
       /\ assets[cf.filename] = cf.asset0
       /\ \A e \in hist.cur : e[1] # cf.filename

\* a marked asset that is not in the store was fetched, read and skipped
C29_Witness ==
    /\ cfg.skip_processed /\ MarkedAtStart
    /\ ~(cfg.skip_in_metadata /\ KnownAtStart)
    /\ cf.pc = "returned" /\ cf.ret = NoneObj /\ cf.trace = SkippedTrace

\* the steps of one traversal of classify_filename, in the order of main.py
StepOrder ==
    <<"lookup", "fetch", "read_tags", "has_marker", "infer", "confirm",
      "upsert_album", "upsert_track", "write_tags", "publish", "cleanup">>

\* C30: in every traversal of one asset the steps occur in this order, none
\* reordered or repeated: store lookup, fetch, tag read, marker check,
\* inference, confirmation, album upsert, asset-record upsert, tag write,
\* publish, scratch cleanup; so the album is upserted before the asset
\* record and the store is written before the tags.
C30_StepOrder ==
    /\ Len(cf.trace) <= Len(StepOrder)
    /\ cf.trace = SubSeq(StepOrder, 1, Len(cf.trace))

\* an asset went through every step
C30_Witness ==
    cf.pc = "returned" /\ cf.trace = StepOrder

\* classify_filename is not in the middle of an asset, and was not cancelled
BetweenAssets == cf.pc \in {"returned", "raised"} /\ cf.exc # "KeyboardInterrupt"

\* the store holds a record the pipeline wrote for f in this run
PipelineRecord(f) ==
    /\ <<f, "persist">> \in hist.cur
    /\ get_file_metadata(metadata_csv, f) # NoneObj

Upserted == \E i \in 1..Len(cf.trace) : cf.trace[i] = "upsert_track"

\* the asset in flight was persisted by the run before this one, and no pull
\* of this run has replaced the table since
PersistedLastRun ==
    /\ <<cf.filename, "persist">> \in hist.last
    /\ <<NoFileName, "pull">> \notin hist.cur

\* C33: every asset record the pipeline upserts has the key equal to the
\* relative path of the asset being processed, as list_files yielded it: the
\* inference sets the key to the filename and the confirmation cannot change
\* it, so the skip-if-in-store lookup of a later run finds the record under
\* that key.
C33_KeyIsRelativePath ==
    /\ cf.pc # "none" => cf.filename = Files[proc.i]
    /\ cf.ai_metadata # NoneObj => cf.ai_metadata.key = cf.filename
    /\ cf.confirmed \notin {NoneObj, Coroutine} => cf.confirmed.key = cf.filename
    /\ Upserted =>
          /\ get_file_metadata(metadata_csv, cf.filename) # NoneObj
          /\ get_file_metadata(metadata_csv, cf.filename).key = cf.filename
    /\ (cf.pc # "none" /\ cfg.skip_in_metadata /\ PersistedLastRun)
       => /\ cf.trace \in {<<>>, <<"lookup">>}
          /\ cf.pc = "returned" => cf.ret = NoneObj

\* an asset persisted by the run before is found by the lookup and skipped
C33_Witness ==
    /\ cfg.skip_in_metadata /\ PersistedLastRun
    /\ cf.pc = "returned" /\ cf.trace = <<"lookup">> /\ cf.ret = NoneObj
    /\ get_file_metadata(metadata_csv, cf.filename).key = cf.filename

----------------------------------------------------------------------------
(* Claims on the synchronisation through the shared repository *)

\* C11: the locked sections of two local processes calling pull_metadata or
\* push_metadata never overlap: at most one process is between acquiring and
\* releasing the lock, and a process that does not get the lock fails with
\* Timeout without having touched the clone.
C11_LockedSectionsNeverOverlap ==
    /\ Cardinality({p \in Procs : sync[p].pc \in LockedSection}) <= 1
    /\ \A p \in Procs :
          /\ sync[p].pc \in LockedSection => lock = p
          /\ sync[p].exc = "Timeout" =>
                /\ sync[p].log = {}
                /\ sync[p].ret = "none"
                /\ lock # p

\* one process timed out while the other was inside the locked section
C11_Witness ==
    \E p, q \in Procs :
        /\ sync[p].exc = "Timeout"
        /\ sync[q].pc \in LockedSection
        /\ lock = q

\* C12: no clone, pull, commit or push failure keeps the batch from being
\* processed: a run with synchronisation enabled never ends before
\* classify_filename was entered for the first asset.
C12_SyncFailureDoesNotBlockBatch ==
    (proc.pc = "exited" /\ ~proc.no_sync /\ cfg.sync_repo) => cf.pc # "none"

\* push_metadata of p returns in this step
PushCompletes(p) ==
    /\ sync[p].fn = "push"
    /\ sync[p].pc \in LockedSection
    /\ sync'[p].pc = "idle"
    /\ sync'[p].exc = ""

\* what every return of push_metadata satisfies after a commit whose push
\* failed: False is returned and the commit stays in the clone
CommitLeftLocal(p) ==
    ({"commit", "push_failed"} \subseteq sync'[p].log) =>
        /\ sync'[p].ret = "False"
        /\ clone'.ahead
        /\ clone'.head = clone'.work

\* the call found an unpushed commit in the clone and no step of it failed
RetriesPush(p) ==
    /\ sync'[p].ahead0
    /\ sync'[p].log \cap {"commit_failed", "push_failed"} = {}

\* C13 as stated: when push_metadata commits and the push fails it returns
\* False with the commit left in the clone, and a later push_metadata call
\* in which nothing fails delivers that commit to the remote, also when the
\* tables have not changed in between.
C13_LaterPushDelivers ==
    [][\A p \in Procs : PushCompletes(p) =>
          /\ CommitLeftLocal(p)
          /\ RetriesPush(p) => (~clone'.ahead /\ remote' = clone'.head)]_vars

\* C13: when push_metadata commits and the push fails it returns False with
\* the commit left in the clone; a later push_metadata call in which nothing
\* fails delivers that commit when the tables have changed in between, and
\* returns True with the commit still undelivered when they have not.
C13_LaterPushDeliversIfChanged ==
    [][\A p \in Procs : PushCompletes(p) =>
          /\ CommitLeftLocal(p)
          /\ RetriesPush(p) =>
                IF sync'[p].dirty
                THEN ~clone'.ahead /\ remote' = clone'.head
                ELSE sync'[p].ret = "True" /\ clone'.ahead /\ remote' = remote]_vars

\* a later push found the commit of a failed push and changed tables, and
\* delivered both
C13_Witness ==
    \E p \in Procs :
        /\ sync[p].fn = "push" /\ sync[p].pc = "idle"
        /\ sync[p].ahead0 /\ sync[p].dirty
        /\ sync[p].ret = "True"
        /\ ~clone.ahead /\ remote = clone.head

\* C14: without a configured repository pull_metadata and push_metadata
\* return False without taking the lock, cloning, copying a table file or
\* running git.
C14_NotConfiguredDoesNothing ==
    ~cfg.sync_repo =>
        /\ lock = 0
        /\ clone = NoClone
        /\ remote \in {Tables(NoFile, NoFile), SeededTables}
        /\ \A p \in Procs :
              /\ sync[p].pc \in {"idle", "config"}
              /\ sync[p].log = {}
              /\ sync[p].exc = ""
              /\ (sync[p].pc = "idle" /\ sync[p].fn # "none") => sync[p].ret = "False"

\* a pull and a push returned False without a configured repository
C14_Witness ==
    /\ ~cfg.sync_repo
    /\ \E p, q \in Procs :
          /\ sync[p].fn = "pull" /\ sync[p].pc = "idle" /\ sync[p].ret = "False"
          /\ sync[q].fn = "push" /\ sync[q].pc = "idle" /\ sync[q].ret = "False"

\* pull_metadata of p returns in this step
PullCompletes(p) ==
    /\ sync[p].fn = "pull"
    /\ sync[p].pc = "copy_from"
    /\ sync'[p].pc = "idle"

\* C15 as stated: when pull_metadata returns with a repository configured,
\* each of the two table files of the configuration directory equals the
\* file in the clone, also when git pull failed.
C15_PullOverwritesLocalTables ==
    [][\A p \in Procs : PullCompletes(p) =>
          /\ metadata_csv' = clone'.work.metadata
          /\ albums_csv' = clone'.work.albums]_vars

\* C15: when pull_metadata returns with a repository configured, each table
\* file that exists in the clone has been copied over the one in the
\* configuration directory, also when git pull failed; a table file the
\* clone does not hold leaves the local file as it was.
C15_PullOverwritesWhatCloneHolds ==
    [][\A p \in Procs : PullCompletes(p) =>
          /\ sync'[p].ret = "True"
          /\ metadata_csv' = IF clone'.work.metadata.exists
                             THEN clone'.work.metadata ELSE metadata_csv
          /\ albums_csv' = IF clone'.work.albums.exists
                           THEN clone'.work.albums ELSE albums_csv]_vars

\* a pull whose git pull failed returned and the local tables are the
\* clone's, which differ from what a batch had written before
C15_Witness ==
    \E p \in Procs :
        /\ sync[p].fn = "pull" /\ sync[p].pc = "idle" /\ sync[p].ret = "True"
        /\ "pull_failed" \in sync[p].log
        /\ clone.work.metadata.exists
        /\ metadata_csv = clone.work.metadata
        /\ albums_csv = clone.work.albums

----------------------------------------------------------------------------
(* Claims on the record store *)

\* the asset table as the store reads it
Tracks == ReadTracksUncached(metadata_csv).val

\* the album table as the store reads it
Albums == ReadAlbumsUncached(albums_csv).val

NoDuplicates(seq, Key(_)) ==
    \A i, j \in 1..Len(seq) : Key(seq[i]) = Key(seq[j]) => i = j

TrackKey(t) == t.key
AlbumName(a) == a.name

ValidTrack(t) == t.date = None \/ t.date # <<>>

\* C16: from_csv_row(to_csv_row(r)) = r for every asset record r (date
\* absent or non-empty) and every album record; an absent date is written as
\* the empty cell and read back as absent, never as the empty string.
C16_RowRoundTrip ==
    /\ (storeOp.name = "upsert_track" /\ ValidTrack(storeOp.track)) =>
          /\ TrackFromCsvRow(TrackToCsvRow(storeOp.track)) = storeOp.track
          /\ storeOp.track.date = None =>
                /\ TrackToCsvRow(storeOp.track)["date"] = <<>>
                /\ TrackFromCsvRow(TrackToCsvRow(storeOp.track)).date = None
    /\ storeOp.name = "upsert_album" =>
          AlbumFromCsvRow(AlbumToCsvRow(storeOp.album)) = storeOp.album

\* a record without date was upserted and its row reads back without date
C16_Witness ==
    /\ storeOp.name = "upsert_track" /\ ~storeOp.raised
    /\ storeOp.track.date = None
    /\ TrackToCsvRow(storeOp.track)["date"] = <<>>
    /\ TrackFromCsvRow(TrackToCsvRow(storeOp.track)) = storeOp.track

\* a table file with the legacy header and complete rows
LegacyTable(file) ==
    /\ file.exists
    /\ file.header = LEGACY_TRACK_FIELDNAMES
    /\ file.rows # <<>>
    /\ \A i \in 1..Len(file.rows) : Len(file.rows[i]) = Len(file.header)

\* C17: reading a legacy asset table yields one record per legacy row, in the
\* order of the rows, with the album name taken from the album column and the
\* album artist from the artist column of the row as the csv reader yields
\* it; key, track, artist and genre are carried over and an empty date cell
\* is the absent date.
C17_LegacyRead ==
    (storeOp.name = "read_tracks" /\ LegacyTable(metadata_csv)) =>
        LET raw == _read_csv_rows(metadata_csv)
            recs == CACHE["metadata.csv"].val
        IN  /\ ~storeOp.raised
            /\ CACHE["metadata.csv"].cached
            /\ Len(recs) = Len(metadata_csv.rows)
            /\ \A i \in 1..Len(recs) :
                  recs[i] = TrackMetadata(raw[i]["key"], raw[i]["track"], raw[i]["artist"],
                                          AlbumMetadata(raw[i]["album"], raw[i]["artist"]),
                                          raw[i]["genre"], Or(raw[i]["date"], None))

\* a legacy table with two rows of different artists was read
C17_Witness ==
    /\ storeOp.name = "read_tracks" /\ LegacyTable(metadata_csv)
    /\ Len(CACHE["metadata.csv"].val) = 2
    /\ CACHE["metadata.csv"].val[1].album = AlbumMetadata(Album1, Artist2)
    /\ CACHE["metadata.csv"].val[2].album = AlbumMetadata(Album1, Artist1)

\* C18: every upsert_track_metadata that returns leaves metadata.csv with
\* the current header and complete rows; the records the table held before,
\* read with the migration when the table was legacy, are all still there in
\* their order (the upserted key replaced or appended), and a table with the
\* current header never gets another header.
C18_UpsertWritesCurrentSchema ==
    [][/\ metadata_csv' # metadata_csv =>
            LET old == ReadTracksUncached(metadata_csv).val
            IN  /\ metadata_csv'.header = TRACK_FIELDNAMES
                /\ \A i \in 1..Len(metadata_csv'.rows) :
                      Len(metadata_csv'.rows[i]) = Len(TRACK_FIELDNAMES)
                /\ ~_is_legacy_track_format(_read_csv_rows(metadata_csv'))
                /\ Len(metadata_csv'.rows) >= Len(old)
                /\ \A i \in 1..Len(old) :
                      old[i].key # storeOp'.track.key =>
                         metadata_csv'.rows[i] =
                            [j \in 1..Len(TRACK_FIELDNAMES) |->
                                CellStr(TrackToCsvRow(old[i])[TRACK_FIELDNAMES[j]])]
       /\ (metadata_csv.exists /\ metadata_csv.header = TRACK_FIELDNAMES) =>
            metadata_csv'.header = TRACK_FIELDNAMES]_vars

\* an upsert of another key on a legacy table left the migrated row of the
\* legacy table under the current header
C18_Witness ==
    /\ storeOp.name = "upsert_track" /\ ~storeOp.raised
    /\ storeOp.track.key = KeyWav
    /\ metadata_csv.header = TRACK_FIELDNAMES
    /\ Len(Tracks) = 2
    /\ Tracks[1].key = KeyMp3
    /\ Tracks[1].album = AlbumMetadata(Album1, Artist2)

\* the columns a table file of the given header must have
RequiredColumns(header) ==
    IF "album" \in Range(header) /\ "album_name" \notin Range(header)
    THEN Range(LEGACY_TRACK_FIELDNAMES)
    ELSE Range(TRACK_FIELDNAMES)

\* a table file with rows, whose header or one of whose rows lacks a
\* required column
Malformed(file, required) ==
    /\ file.exists
    /\ file.rows # <<>>
    /\ \/ ~(required \subseteq Range(file.header))
       \/ \E i \in 1..Len(file.rows) : Len(file.rows[i]) < Len(file.header)

\* C19: a read of a table with a malformed row (the header or a row lacks a
\* required column, current or legacy schema) raises; it does not return a
\* partial table or a record with defaulted fields.
C19_MalformedRowFailsRead ==
    /\ (storeOp.name = "read_tracks"
        /\ Malformed(metadata_csv, RequiredColumns(metadata_csv.header)))
       => storeOp.raised
    /\ (storeOp.name = "read_albums"
        /\ Malformed(albums_csv, Range(ALBUM_FIELDNAMES)))
       => storeOp.raised

\* C9: for every valid asset record r (date absent or non-empty) and every
\* store state, right after upsertAsset(r) getAsset(r.key) returns a record
\* equal to r in every field, and an upsertAsset whose key the table already
\* holds leaves the row count of the asset table unchanged.
C9_WriteReadConsistency ==
    (storeOp.name = "upsert_track" /\ ~storeOp.raised /\ ValidTrack(storeOp.track)) =>
        /\ get_file_metadata(metadata_csv, storeOp.track.key) = storeOp.track
        /\ storeOp.known => Len(Tracks) = storeOp.before

\* C10: starting from tables without duplicates, after any sequence of
\* upsertAsset and upsertAlbum calls the asset table never holds two rows with
\* the same key and the album table never holds two rows with the same name.
C10_NoDuplicateKeys ==
    /\ NoDuplicates(Tracks, TrackKey)
    /\ NoDuplicates(Albums, AlbumName)

\* the cells of the one data line a table holds after its first upsert
TrackCells(t) ==
    <<t.key, t.track, t.artist, t.album.name, t.album.artist, t.genre,
      IF Truthy(t.date) THEN t.date ELSE <<>> >>

AlbumCells(a) == <<a.name, a.artist>>

\* reading a table whose file does not exist gives no records and no error
MissingTableReadsEmpty ==
    /\ ~metadata_csv.exists =>
          \A use_cache \in BOOLEAN :
             _read_track_metadata(metadata_csv, CACHE, use_cache)
                = [err |-> FALSE, val |-> <<>>]
    /\ ~albums_csv.exists =>
          \A use_cache \in BOOLEAN :
             _read_album_metadata(albums_csv, CACHE, use_cache)
                = [err |-> FALSE, val |-> <<>>]

\* an upsert on a missing file creates it with the one upserted row
UpsertCreatesTable ==
    /\ (storeOp'.name = "upsert_track" /\ storeOp'.n # storeOp.n /\ ~metadata_csv.exists)
       => /\ ~storeOp'.raised
          /\ metadata_csv' = CsvFile(TRACK_FIELDNAMES, <<TrackCells(storeOp'.track)>>)
    /\ (storeOp'.name = "upsert_album" /\ storeOp'.n # storeOp.n /\ ~albums_csv.exists)
       => /\ ~storeOp'.raised
          /\ albums_csv' = CsvFile(ALBUM_FIELDNAMES, <<AlbumCells(storeOp'.album)>>)

\* C28: reading either table when its file does not exist returns an empty
\* sequence of records and raises no error, and an upsert on a missing file
\* creates the file with exactly the one upserted row.
C28_MissingTable ==
    []MissingTableReadsEmpty /\ [][UpsertCreatesTable]_vars

\* the first call created the asset table with one row while the album table
\* is still missing
C28_Witness ==
    /\ storeOp.name = "upsert_track" /\ storeOp.n = 1 /\ storeOp.before = 0
    /\ metadata_csv = CsvFile(TRACK_FIELDNAMES, <<TrackCells(storeOp.track)>>)
    /\ ~albums_csv.exists

\* the asset records with a key other than key, in table order
OtherTracks(tracks, key) == SelectSeq(tracks, LAMBDA t : t.key # key)

\* the position of the first record with the key
KeyIndex(tracks, key) ==
    CHOOSE i \in 1..Len(tracks) :
        tracks[i].key = key /\ \A k \in 1..(i - 1) : tracks[k].key # key

\* a completed upsert_track_metadata(r): the other rows, their order and the
\* album table are as before, r is at the end or where its key was
UpsertTrackFrame ==
    (storeOp'.name = "upsert_track" /\ storeOp'.n # storeOp.n /\ ~storeOp'.raised)
    => LET r == storeOp'.track
       IN  /\ OtherTracks(Tracks', r.key) = OtherTracks(Tracks, r.key)
           /\ Len(Tracks') = Len(Tracks) + (IF storeOp'.known THEN 0 ELSE 1)
           /\ KeyIndex(Tracks', r.key)
                 = IF storeOp'.known THEN KeyIndex(Tracks, r.key) ELSE Len(Tracks')
           /\ albums_csv' = albums_csv

\* a completed upsert_album_metadata: the asset table is as before, with the
\* album values its records embed
UpsertAlbumFrame ==
    (storeOp'.name = "upsert_album" /\ storeOp'.n # storeOp.n)
    => /\ metadata_csv' = metadata_csv
       /\ Tracks' = Tracks

\* C35: upsert_track_metadata(r) leaves every asset row with a key other than
\* r.key unchanged and in the same relative order (a new key is appended at
\* the end, an existing key keeps its position) and leaves the album table
\* unchanged; upsert_album_metadata leaves the asset table unchanged,
\* including asset records that embed the old values of that album.
C35_UpsertFrame ==
    [][UpsertTrackFrame /\ UpsertAlbumFrame]_vars

\* what a read with the cache enabled returns for a table: the cache entry
\* if there is one, else the rows parsed from the file
CachedRead(entry, onDisk) == IF entry.cached THEN entry.val ELSE onDisk.val

\* a read with the cache enabled returns the rows now on disk
ReadsAreFresh ==
    /\ ~ReadTracksUncached(metadata_csv).err =>
          CachedRead(CACHE["metadata.csv"], ReadTracksUncached(metadata_csv)) = Tracks
    /\ ~ReadAlbumsUncached(albums_csv).err =>
          CachedRead(CACHE["albums.csv"], ReadAlbumsUncached(albums_csv)) = Albums

\* a step that writes one table file only leaves the cache entry of the
\* other table as it was
OtherEntryUntouched ==
    /\ (metadata_csv' # metadata_csv /\ albums_csv' = albums_csv)
       => CACHE'["albums.csv"] = CACHE["albums.csv"]
    /\ (albums_csv' # albums_csv /\ metadata_csv' = metadata_csv)
       => CACHE'["metadata.csv"] = CACHE["metadata.csv"]

\* C36: after any write to a table file, by an upsert or by the copy of
\* pull_metadata, the next read of that file with the cache enabled returns
\* the rows now on disk and never rows cached before the write, and the cache
\* entry of the other table file is left untouched.
C36_ReadAfterWriteIsFresh ==
    []ReadsAreFresh /\ [][OtherEntryUntouched]_vars

----------------------------------------------------------------------------
(* Claims on the library functions *)

\* the extension of a file name, compared case-insensitively, is recognized
Recognized(name) ==
    \E e \in AUDIO_EXTENSIONS : Len(name) > Len(e) /\ EndsWith(Lower(name), e)

\* the paths, relative to the root, of the recognized files of a tree
RECURSIVE RelativePaths(_, _)
RelativePaths(prefix, entries) ==
    UNION {IF e.isdir THEN RelativePaths(prefix \o e.name \o <<"/">>, e.entries)
           ELSE IF Recognized(e.name) THEN {prefix \o e.name} ELSE {} :
           e \in Range(entries)}

\* C21: list over a directory tree yields exactly the files with a
\* recognized extension (case-insensitively), each exactly once, as paths
\* relative to the root; no other file is yielded
C21_ListYieldsRecognizedFiles ==
    (call.fn = "list_files" /\ call.done) =>
        /\ Range(call.ret) = RelativePaths(<<>>, call.entries)
        /\ \A i, j \in 1..Len(call.ret) : call.ret[i] = call.ret[j] => i = j

\* the value a credential resolves to: the explicit one if given, otherwise
\* the one of the environment if set, otherwise the one of the file
Resolved(explicit, env, file) ==
    IF explicit # None THEN explicit ELSE IF Truthy(env) THEN env ELSE file

\* C25: the remote transport takes, for the username and for the password
\* separately, the explicit call-time value if given, otherwise the value of
\* the environment, otherwise the value in the persisted configuration file
\* (an explicit value, when given, being a non-empty string).
C25_CredentialResolutionOrder ==
    (/\ call.fn = "WebdavTransport" /\ call.done
     /\ call.username # <<>> /\ call.password # <<>>)
    => /\ call.ret.webdav_login =
            Resolved(call.username, call.env.username, call.config.username)
       /\ call.ret.webdav_password =
            Resolved(call.password, call.env.password, call.config.password)

\* the username comes from the call, the password from the file although the
\* environment holds a username
C25_Witness ==
    /\ call.fn = "WebdavTransport" /\ call.done
    /\ call.username = <<"a">> /\ call.password = None
    /\ call.env = Credentials(<<"c">>, None)
    /\ call.config = Credentials(<<"e">>, <<"f">>)
    /\ call.ret = [webdav_login |-> <<"a">>, webdav_password |-> <<"f">>]

\* the answer holds a JSON object: a brace pair around members only, alone,
\* inside a fence or inside prose
HoldsObject(content) ==
    /\ content # NoContent
    /\ \E i, j \in 1..Len(content) :
          /\ i < j
          /\ content[i].t = LBrace.t /\ content[j].t = RBrace.t
          /\ \A k \in (i + 1)..(j - 1) : content[k].t \in {"member", "album"}

\* C26: whenever the answer of the inference provider cannot be parsed as
\* the structured record (an empty answer included), parse_metadata_with_ai
\* fails with an error and returns no record built from defaults.
C26_UnparsableAnswerIsAnError ==
    (/\ call.fn = "parse_metadata_with_ai" /\ call.done
     /\ ~HoldsObject(call.content))
    => call.raised # "" /\ call.ret = NoneObj

\* the texts of a comment tag, in order
Texts(comment) == [i \in 1..Len(comment.items) |-> AsText(comment.items[i])]

\* the number of entries of a comment tag that are the marker
MarkerEntries(comment) ==
    Cardinality({i \in 1..Len(comment.items) : AsText(comment.items[i]) = PROCESSED_MARKER})

\* C27: merging the sentinel marker into a comment field keeps every value
\* the field held, in the original order, makes the marker present, and is
\* idempotent: writing the same asset a second time adds no marker entry.
C27_MergeKeepsCommentsAndIsIdempotent ==
    (call.fn = "_merge_comment" /\ call.writes > 0)
    => /\ Len(Texts(call.existing)) >= Len(Texts(call.before))
       /\ SubSeq(Texts(call.existing), 1, Len(Texts(call.before))) = Texts(call.before)
       /\ MarkerEntries(call.existing) >= 1
       /\ _has_marker_in_list(call.existing, PROCESSED_MARKER)
       /\ call.writes > 1 => call.existing = call.before

\* an asset with two comment values, none of them the marker, written twice
C27_Witness ==
    /\ call.fn = "_merge_comment" /\ call.writes = 2
    /\ Texts(call.existing) = << <<"c">>, <<"d">>, PROCESSED_MARKER >>

\* C32: for every extension in the recognized set that list_files yields, a
\* tag write that returns without error leaves the asset carrying the
\* sentinel marker: is_already_processed is true afterwards, so a later run
\* with skipIfProcessed enabled skips the asset.
C32_TagWriteLeavesMarker ==
    (/\ call.fn = "write_file_metadata" /\ call.done
     /\ is_audio_file(call.path) /\ call.raised = "")
    => call.processed

\* the absolute paths of the recognized files of a tree, in the order
\* os.listdir gives the entries
RECURSIVE EnumeratedFiles(_, _)
EnumeratedFiles(dir, entries) ==
    IF entries = <<>> THEN <<>>
    ELSE LET e == Head(entries)
             here == IF e.isdir
                     THEN EnumeratedFiles(dir \o <<"/">> \o e.name, e.entries)
                     ELSE IF Recognized(e.name) THEN <<dir \o <<"/">> \o e.name>>
                     ELSE <<>>
         IN  here \o EnumeratedFiles(dir, Tail(entries))

\* C34: for every root directory and every path p yielded by the local
\* list(root), fetch(p, root) returns the absolute path of exactly the file
\* that was enumerated, for any nesting depth and any directory names,
\* including a subdirectory whose path contains the root path string again.
C34_FetchReturnsEnumeratedFile ==
    (call.fn = "list_files" /\ call.fetched) =>
        call.loaded = EnumeratedFiles(call.path, call.entries)

\* a pull or push that got into its locked section works in a clone of the
\* configured repository and writes to no other repository
SyncsWithConfigured ==
    (call'.n # call.n /\ call'.last \in {"pull", "push"} /\ call'.entered)
    => /\ call'.origin = call.sync_repo
       /\ \A v \in Urls \ {call.sync_repo} : remote'[v] = remote[v]

\* C37: after set_sync_repo(u), every later pull_metadata and push_metadata
\* synchronizes the tables with repository u, also when a local clone of a
\* previously configured repository already exists.
C37_SyncUsesConfiguredRepo ==
    [][SyncsWithConfigured]_vars

\* C38: whenever pull_metadata or push_metadata terminates, by returning
\* success, returning failure or raising (clone failure, failure of a git
\* command), the sync lock is no longer held by that process, so a later
\* pull or push in any process on the host can acquire it.
C38_LockReleasedOnExit ==
    /\ \A p \in Procs : lock = p => sync[p].pc \in LockedSection
    /\ (\A p \in Procs : sync[p].pc \notin LockedSection) => lock = 0

\* a call of one process raised inside the locked section and the other
\* process acquired the lock after it
C38_Witness ==
    \E p, q \in Procs :
        /\ sync[p].pc = "idle"
        /\ sync[p].exc \in {"RuntimeError", "CalledProcessError"}
        /\ "lock" \in sync[p].log
        /\ lock = q /\ q # p

====
